---- MODULE Spec2Model ----
(***************************************************************************)
(* A model of the HL7 de-identification scripts: full.py (two-pass         *)
(* identity resolution and field rewriting), physician.py (referenced      *)
(* personnel mapping) and encrypt.py (the earlier single-pass variant).    *)
(*                                                                         *)
(* Text is modelled as text: a string is a sequence of one-character       *)
(* strings, and the code's split / join / strip / splitlines calls are     *)
(* operators on such sequences.                                            *)
(***************************************************************************)
EXTENDS Integers, Sequences, FiniteSets, TLC

VARIABLES
    messages,               \* full.py:328-329  the batch, a sequence of message texts
    secret,                 \* args.secret
    use_hmac,               \* args.use_hmac
    phase,                  \* position of main: "pass1", "pass2", "sort", "done"
    idx,                    \* index of the next message of the running loop
    identity_map,           \* full.py:331
    account_to_deid_map,    \* full.py:332
    mother_to_deid_map,     \* full.py:333
    physician_mapping,      \* full.py:334 / physician.py:94
    messages_with_details,  \* full.py:335
    op,                     \* the function a single-call specification applies
    args,                   \* its arguments
    ret                     \* its result (<<>> before the call)

vars == <<messages, secret, use_hmac, phase, idx, identity_map, account_to_deid_map,
          mother_to_deid_map, physician_mapping, messages_with_details, op, args, ret>>

mainVars == <<messages, secret, use_hmac, phase, idx, identity_map, account_to_deid_map,
              mother_to_deid_map, physician_mapping, messages_with_details>>

callVars == <<op, args, ret>>

----------------------------------------------------------------------------
(* Python string primitives on sequences of characters.                    *)

EmptyStr == <<>>

\* The only element of a one-element set.  In {e : x \in {v}} the value v is
\* computed once, however often e uses x.
Only(S) == CHOOSE x \in S : TRUE

\* The k-th smallest element of a set of positions.
Nth(P, k) == CHOOSE p \in P : Cardinality({q \in P : q < p}) = k - 1

\* The first position from `from` on where t holds a character of `chars`, 0 if none.
FirstOf(t, chars, from) ==
    IF \E i \in from..Len(t) : t[i] \in chars
    THEN CHOOSE i \in from..Len(t) : t[i] \in chars /\ \A j \in from..(i - 1) : t[j] \notin chars
    ELSE 0

\* The parts of t from position `from` on.
RECURSIVE SplitFrom(_, _, _)
SplitFrom(t, d, from) ==
    Only({ IF e = 0 THEN <<SubSeq(t, from, Len(t))>>
           ELSE <<SubSeq(t, from, e - 1)>> \o SplitFrom(t, d, e + 1)
           : e \in {FirstOf(t, {d}, from)} })

\* str.split(sep) for a one-character separator: n separators give n+1 parts.
Split(s, d) == Only({SplitFrom(t, d, 1) : t \in {s}})

RECURSIVE JoinFrom(_, _, _)
JoinFrom(parts, d, i) ==
    IF i > Len(parts) THEN <<>>
    ELSE IF i = Len(parts) THEN parts[i]
    ELSE parts[i] \o <<d>> \o JoinFrom(parts, d, i + 1)

\* sep.join(parts)
Join(parts, d) == Only({JoinFrom(p, d, 1) : p \in {parts}})

Whitespace == {" ", "\t", "\n", "\r"}

\* str.strip(): what lies between the first and the last character that is no
\* whitespace.
StripValue(t) ==
    LET P == {i \in 1..Len(t) : t[i] \notin Whitespace}
    IN  IF P = {} THEN <<>>
        ELSE SubSeq(t, CHOOSE i \in P : \A j \in P : i <= j, CHOOSE i \in P : \A j \in P : j <= i)

Strip(s) == Only({StripValue(t) : t \in {s}})

\* str.startswith(prefix)
StartsWith(s, p) == Len(s) >= Len(p) /\ SubSeq(s, 1, Len(p)) = p

\* str.splitlines(): lines end at \n, \r\n or \r; the terminators are dropped and
\* a final terminator opens no empty last line.
RECURSIVE SplitLinesFrom(_, _)
SplitLinesFrom(t, from) ==
    IF from > Len(t) THEN <<>>
    ELSE Only({ IF e = 0 THEN <<SubSeq(t, from, Len(t))>>
                ELSE <<SubSeq(t, from, e - 1)>>
                         \o SplitLinesFrom(t, IF t[e] = "\r" /\ e < Len(t) /\ t[e + 1] = "\n"
                                              THEN e + 2 ELSE e + 1)
                : e \in {FirstOf(t, {"\n", "\r"}, from)} })

SplitLines(s) == Only({SplitLinesFrom(t, 1) : t \in {s}})

\* str.upper() on the letters the code compares in upper case.
UpperChar(c) ==
    CASE c = "a" -> "A" [] c = "n" -> "N" [] c = "m" -> "M" [] c = "d" -> "D"
      [] c = "o" -> "O" [] c = "r" -> "R" [] c = "f" -> "F" [] OTHER -> c

Upper(s) == Only({[i \in 1..Len(t) |-> UpperChar(t[i])] \o <<>> : t \in {s}})

\* [""] * n
Empties(n) == [i \in 1..n |-> <<>>]

----------------------------------------------------------------------------
(* Bounded sets of texts.                                                   *)

\* All texts over the alphabet `chars` of length exactly n, and of length <= n.
RECURSIVE TextsOfLen(_, _)
TextsOfLen(chars, n) ==
    IF n = 0 THEN {<<>>}
    ELSE {Append(t, c) : t \in TextsOfLen(chars, n - 1), c \in chars}

TextsUpTo(chars, n) == UNION {TextsOfLen(chars, k) : k \in 0..n}

\* The number of occurrences of character c in s.
Count(s, c) == Cardinality({i \in 1..Len(s) : s[i] = c})

Max(a, b) == IF a >= b THEN a ELSE b

NotCalled == [done |-> FALSE, value |-> <<>>]

Returned(v) == [done |-> TRUE, value |-> v]

\* The state of main's variables in a specification that only applies one function.
MainIdle ==
    /\ messages = <<>>
    /\ secret = <<>>
    /\ use_hmac = FALSE
    /\ phase = "idle"
    /\ idx = 0
    /\ identity_map = <<>>
    /\ account_to_deid_map = <<>>
    /\ mother_to_deid_map = <<>>
    /\ physician_mapping = <<>>
    /\ messages_with_details = <<>>

----------------------------------------------------------------------------
(* hashlib.sha256 / hmac.new(..., hashlib.sha256), idealised.                *)
(*                                                                         *)
(* A digest is modelled by the decimal digits of int(hexdigest, 16).  The  *)
(* model digest is an injective encoding of what was hashed (two digits    *)
(* per character, a leading digit telling the two constructions apart):    *)
(* the collision resistance of SHA-256, and nothing else, is assumed.      *)

HashAlphabet ==
    <<"-", "^", "~", " ", "F", "G", "1", "2", "a", "b", "c", "k", "j", "H",
      "0", "3", "4", "5", "6", "7", "8", "9", "A", "N", "M", "D", "X", "|">>

DigitChars == <<"0", "1", "2", "3", "4", "5", "6", "7", "8", "9">>

CharCode(c) == 10 + (CHOOSE i \in 1..Len(HashAlphabet) : HashAlphabet[i] = c)

TwoDigits(n) == <<DigitChars[(n \div 10) + 1], DigitChars[(n % 10) + 1]>>

EncodeBytes(s) ==
    Only({ [i \in 1..(2 * Len(t)) |-> TwoDigits(CharCode(t[(i + 1) \div 2]))[2 - (i % 2)]] \o <<>>
           : t \in {s} })

\* hashlib.sha256(data)
Sha256(data) == <<"1">> \o EncodeBytes(data)

\* hmac.new(key, data, hashlib.sha256)
HmacSha256(key, data) == <<"2">> \o EncodeBytes(data) \o <<"0", "0">> \o EncodeBytes(key)

----------------------------------------------------------------------------
(* full.py:48-56 generate_unique_key (encrypt.py:28-39 is the same code)    *)

\* A variant that never uses the secret.
generate_unique_key_unkeyed(facility, pid_3, secret_key, hmac_flag) ==
    Sha256(facility \o <<"-">> \o pid_3)

generate_unique_key(facility, pid_3, secret_key, hmac_flag) ==
    LET composite == facility \o <<"-">> \o pid_3
    IN  IF hmac_flag /\ secret_key # <<>>
        THEN HmacSha256(secret_key, composite)
        ELSE Sha256(composite)

\* Bounds of the generate_unique_key specification.
MaxKeyFieldLen == 2

KeyChars == {"F", "-", "1"}

\* <<>> stands for no secret (None, or the empty string: both are false in Python).
Secrets == {<<>>, <<"k">>, <<"j">>}

\* Two runs over the same (facility, primary ID) pair, each with its own secret.
KeyInputs ==
    [facility : TextsUpTo(KeyChars, MaxKeyFieldLen),
     pid_3 : TextsUpTo(KeyChars, MaxKeyFieldLen),
     secret_a : Secrets, secret_b : Secrets, hmac_flag : BOOLEAN]

InitKey ==
    /\ MainIdle
    /\ op = "generate_unique_key"
    /\ args \in KeyInputs
    /\ ret = NotCalled

CallGenerateUniqueKey ==
    /\ op = "generate_unique_key"
    /\ ~ret.done
    /\ ret' = Returned(
          <<generate_unique_key(args.facility, args.pid_3, args.secret_a, args.hmac_flag),
            generate_unique_key(args.facility, args.pid_3, args.secret_b, args.hmac_flag)>>)
    /\ UNCHANGED <<op, args>>
    /\ UNCHANGED mainVars

NextKey == CallGenerateUniqueKey

SpecKey == InitKey /\ [][NextKey]_vars

KeyReturned == op = "generate_unique_key" /\ ret.done

\* C10 as stated: the same secret gives the same key, and a supplied secret replaced
\* by a different one gives a different key, whatever the keyed/unkeyed flag.
C10_AsClaimed ==
    KeyReturned =>
        /\ (args.secret_a = args.secret_b => ret.value[1] = ret.value[2])
        /\ (args.secret_a # <<>> /\ args.secret_a # args.secret_b)
               => ret.value[1] # ret.value[2]

\* C10 amended: the same secret gives the same key; with the keyed flag set, a
\* supplied secret replaced by a different one gives a different key; with the flag
\* unset the secret is not used and the key is the same for every secret.
C10_KeyedDeterminism ==
    KeyReturned =>
        /\ (args.secret_a = args.secret_b => ret.value[1] = ret.value[2])
        /\ (args.hmac_flag /\ args.secret_a # <<>> /\ args.secret_a # args.secret_b)
               => ret.value[1] # ret.value[2]
        /\ ~args.hmac_flag => ret.value[1] = ret.value[2]

\* Two different supplied secrets under the keyed flag have produced two keys.
C10_Witness ==
    /\ KeyReturned
    /\ args.hmac_flag
    /\ args.secret_a = <<"k">> /\ args.secret_b = <<"j">>
    /\ args.facility # <<>> /\ args.pid_3 # <<>>
    /\ ret.value[1] # ret.value[2]

----------------------------------------------------------------------------
(* full.py:22-31 preserve_carets                                           *)

\* A variant that pads one component short (a plausible off-by-one).
preserve_carets_short(original_field, new_value) ==
    Only({ Join(IF Len(new_components) < Len(orig_components)
                THEN new_components
                         \o Empties(Len(orig_components) - Len(new_components) - 1)
                ELSE new_components, "^")
           : orig_components \in {Split(original_field, "^")},
             new_components \in {Split(new_value, "^")} })

preserve_carets(original_field, new_value) ==
    Only({ Join(IF Len(new_components) < Len(orig_components)
                THEN new_components \o Empties(Len(orig_components) - Len(new_components))
                ELSE new_components, "^")
           : orig_components \in {Split(original_field, "^")},
             new_components \in {Split(new_value, "^")} })

\* Bounds of the preserve_carets specification.
MaxCaretLen == 4

CaretChars == {"X", "^"}

ScenarioOriginal == <<"A", "^", "B", "^", "^", "D">>

ScenarioReplacement == <<"X">>

CaretInputs ==
    [original_field : TextsUpTo(CaretChars, MaxCaretLen),
     new_value : TextsUpTo(CaretChars, MaxCaretLen)]
      \cup {[original_field |-> ScenarioOriginal, new_value |-> ScenarioReplacement]}

InitCarets ==
    /\ MainIdle
    /\ op = "preserve_carets"
    /\ args \in CaretInputs
    /\ ret = NotCalled

CallPreserveCarets ==
    /\ op = "preserve_carets"
    /\ ~ret.done
    /\ ret' = Returned(preserve_carets(args.original_field, args.new_value))
    /\ UNCHANGED <<op, args>>
    /\ UNCHANGED mainVars

NextCarets == CallPreserveCarets

SpecCarets == InitCarets /\ [][NextCarets]_vars

\* The number of ^-separated components of a text.
Components(s) == Count(s, "^") + 1

Carets(n) == [i \in 1..n |-> "^"]

\* C9: preserve_carets returns the replacement followed by just enough empty
\* components (one ^ each) to reach max(components(original), components(replacement))
\* components; A^B^^D replaced by X gives X^^^; the result never has fewer components
\* than the original.
C9_PreserveCaretsPads ==
    (op = "preserve_carets" /\ ret.done) =>
        LET o == Components(args.original_field)
            n == Components(args.new_value)
        IN  /\ ret.value = args.new_value \o Carets(Max(o, n) - n)
            /\ Components(ret.value) = Max(o, n)
            /\ Components(ret.value) >= o
            /\ (args.original_field = ScenarioOriginal /\ args.new_value = ScenarioReplacement)
                   => ret.value = <<"X", "^", "^", "^">>

\* The scenario of the specification has been rewritten, and it needed padding.
C9_Witness ==
    /\ op = "preserve_carets" /\ ret.done
    /\ args.original_field = ScenarioOriginal
    /\ args.new_value = ScenarioReplacement
    /\ Components(ret.value) > Components(args.new_value)

----------------------------------------------------------------------------
(* physician.py                                                            *)

RoleCodes == {<<"D", "O">>, <<"M", "D">>, <<"D", "R">>}

\* physician.py:8-17
is_physician_field(field_value) ==
    IF Strip(field_value) = <<>> THEN FALSE
    ELSE \E parts \in {Split(field_value, "^")} :
            Len(parts) >= 4 /\ Upper(parts[Len(parts)]) \in RoleCodes

\* What Faker returns to one call of map_physician_field that generates: first_name(),
\* last_name() and bothify("?????") (five letters).  The pool is a bound on the random
\* outcomes explored; Faker's range is not disjoint from what a batch may contain.
MaxFakePhysicians == 2

FakePhysicianPool ==
    <<[fake_first |-> <<"A", "l">>, fake_last |-> <<"L", "i">>,
       fake_id |-> <<"k", "k", "k", "k", "k">>],
      [fake_first |-> <<"B", "o">>, fake_last |-> <<"N", "g">>,
       fake_id |-> <<"j", "j", "j", "j", "j">>],
      [fake_first |-> <<"C", "y">>, fake_last |-> <<"O", "h">>,
       fake_id |-> <<"c", "c", "c", "c", "c">>],
      [fake_first |-> <<"D", "i">>, fake_last |-> <<"P", "o">>,
       fake_id |-> <<"b", "b", "b", "b", "b">>]>>

PhysicianDraws == {FakePhysicianPool[i] : i \in 1..MaxFakePhysicians}

\* physician.py:30-42: the literal built from the role of `value` and one draw.
NewPhysicianValue(value, draw) ==
    Only({ Join(<<draw.fake_id, draw.fake_last, draw.fake_first, <<draw.fake_first[1]>>,
                  <<>>, <<>>, parts[Len(parts)]>>, "^")
           : parts \in {Split(value, "^")} })

\* dict: key in mapping, mapping[key] = value
HasKey(mapping, key) == key \in DOMAIN mapping

\* A variant of the dict assignment that forgets the other keys.
DictSet_dropping(mapping, key, value) == [k \in {key} |-> value]

DictSet(mapping, key, value) ==
    [k \in DOMAIN mapping \cup {key} |-> IF k = key THEN value ELSE mapping[k]]

\* dict.get(key, default)
DictGet(mapping, key, default) == IF key \in DOMAIN mapping THEN mapping[key] ELSE default

EmptyDict == <<>>

\* A variant that generates without recording the literal in the mapping.
map_physician_field_forgetful(value, mapping, draws) ==
    IF ~is_physician_field(value) THEN [value |-> value, mapping |-> mapping]
    ELSE IF HasKey(mapping, value) THEN [value |-> mapping[value], mapping |-> mapping]
    ELSE [value |-> NewPhysicianValue(value, draws[value]), mapping |-> mapping]

\* physician.py:19-44.  `draws` gives, for each literal that is generated, what Faker
\* returns to that call; the result is the returned value and the mapping afterwards.
map_physician_field(value, mapping, draws) ==
    IF ~is_physician_field(value) THEN [value |-> value, mapping |-> mapping]
    ELSE IF HasKey(mapping, value) THEN [value |-> mapping[value], mapping |-> mapping]
    ELSE Only({ [value |-> new_value, mapping |-> DictSet(mapping, value, new_value)]
                : new_value \in {NewPhysicianValue(value, draws[value])} })

\* physician.py:56: the list comprehension over the fields of one PV1 segment.
RECURSIVE MapPhysicianFields(_, _, _, _, _)
MapPhysicianFields(fields, mapping, draws, i, acc) ==
    IF i > Len(fields) THEN [fields |-> acc, mapping |-> mapping]
    ELSE Only({ MapPhysicianFields(fields, r.mapping, draws, i + 1, Append(acc, r.value))
                : r \in {map_physician_field(fields[i], mapping, draws)} })

PV1Tag == <<"P", "V", "1">>

PIDTag == <<"P", "I", "D">>

MSHTag == <<"M", "S", "H">>

\* physician.py:53-59: the loop over the segments of one message.
RECURSIVE ProcessSegments(_, _, _, _, _)
ProcessSegments(segments, mapping, draws, i, acc) ==
    IF i > Len(segments) THEN [segments |-> acc, mapping |-> mapping]
    ELSE IF StartsWith(segments[i], PV1Tag)
         THEN Only({ ProcessSegments(segments, r.mapping, draws, i + 1,
                                     Append(acc, Join(r.fields, "|")))
                     : r \in { Only({MapPhysicianFields(fields, mapping, draws, 1, <<>>)
                                     : fields \in {Split(segments[i], "|")}}) } })
         ELSE ProcessSegments(segments, mapping, draws, i + 1, Append(acc, segments[i]))

\* physician.py:46-60: the processed message and the mapping afterwards.
process_hl7_message(message, mapping, draws) ==
    Only({ Only({ [message |-> Join(r.segments, "\n"), mapping |-> r.mapping]
                  : r \in {ProcessSegments(segments, mapping, draws, 1, <<>>)} })
           : segments \in {SplitLines(message)} })

\* The fields of the PV1 segments of a message, in order.
RECURSIVE PV1FieldsFrom(_, _)
PV1FieldsFrom(segments, i) ==
    IF i > Len(segments) THEN <<>>
    ELSE (IF StartsWith(segments[i], PV1Tag) THEN Split(segments[i], "|") ELSE <<>>)
             \o PV1FieldsFrom(segments, i + 1)

PV1Fields(message) == Only({PV1FieldsFrom(segments, 1) : segments \in {SplitLines(message)}})

SeqRange(q) == {q[i] : i \in 1..Len(q)}

\* The physician literals of a message that the mapping does not hold yet: the
\* calls of map_physician_field that will generate.
NewPhysicianLiterals(message, mapping) ==
    {f \in SeqRange(PV1Fields(message)) : is_physician_field(f) /\ ~HasKey(mapping, f)}

\* physician.py:62-76
RECURSIVE ExtractPhysicianFrom(_, _, _, _, _)
ExtractPhysicianFrom(fields, mapping, draws, i, acc) ==
    IF i > Len(fields) THEN [fake_physicians |-> acc, mapping |-> mapping]
    ELSE IF is_physician_field(fields[i])
         THEN Only({ ExtractPhysicianFrom(fields, r.mapping, draws, i + 1,
                                          Append(acc, r.value))
                     : r \in {map_physician_field(fields[i], mapping, draws)} })
         ELSE ExtractPhysicianFrom(fields, mapping, draws, i + 1, acc)

extract_physician_fields(msg, mapping, draws) ==
    Only({ExtractPhysicianFrom(fields, mapping, draws, 1, <<>>) : fields \in {PV1Fields(msg)}})

----------------------------------------------------------------------------
(* physician.py:79-105 main: one shared mapping over the messages of a file *)

\* Bound on the number of messages of the batch.
MaxPhysMessages == 2

\* PV1 field values: a physician literal, one with eight components and a lower-case
\* role, one that has the shape of a generated literal, a three-component value that
\* is no physician field, and an empty field.
PhysFieldValues ==
    { <<"a", "^", "b", "^", "c", "^", "M", "D">>,
      <<"a", "^", "b", "^", "c", "^", "d", "^", "e", "^", "f", "^", "g", "^", "d", "o">>,
      <<"k", "k", "k", "k", "k", "^", "L", "i", "^", "A", "l", "^", "A", "^", "^", "^",
        "M", "D">>,
      <<"a", "^", "b", "^", "M", "D">>,
      <<>> }

PhysMessage(f1, f2) ==
    Join(<<MSHTag, <<"F">>>>, "|") \o <<"\n">>
        \o Join(<<PV1Tag, <<"1">>, f1, f2>>, "|") \o <<"\n">>

\* The second PV1 field repeats the first physician literal or is empty.
PhysMessages ==
    {PhysMessage(f1, f2) : f1 \in PhysFieldValues,
                           f2 \in {<<"a", "^", "b", "^", "c", "^", "M", "D">>, <<>>}}

\* Sequences over S of length 1..n.
RECURSIVE SeqsOfLen(_, _)
SeqsOfLen(S, n) ==
    IF n = 0 THEN {<<>>} ELSE {Append(q, x) : q \in SeqsOfLen(S, n - 1), x \in S}

Batches(S, n) == UNION {SeqsOfLen(S, k) : k \in 1..n}

InitPhys ==
    /\ messages \in Batches(PhysMessages, MaxPhysMessages)
    /\ secret = <<>>
    /\ use_hmac = FALSE
    /\ phase = "physician"
    /\ idx = 1
    /\ identity_map = <<>>
    /\ account_to_deid_map = <<>>
    /\ mother_to_deid_map = <<>>
    /\ physician_mapping = EmptyDict
    /\ messages_with_details = <<>>
    /\ op = "physician_main"
    /\ args = <<>>
    /\ ret = NotCalled

\* physician.py:97-99: one iteration of the loop; messages_with_details holds
\* processed_messages.
ProcessPhysicianMessage ==
    /\ phase = "physician"
    /\ idx <= Len(messages)
    /\ \E draws \in [NewPhysicianLiterals(messages[idx], physician_mapping) -> PhysicianDraws] :
       \E r \in {process_hl7_message(messages[idx], physician_mapping, draws)} :
          /\ physician_mapping' = r.mapping
          /\ messages_with_details' = Append(messages_with_details, r.message)
    /\ idx' = idx + 1
    /\ UNCHANGED <<messages, secret, use_hmac, phase, identity_map, account_to_deid_map,
                   mother_to_deid_map, op, args, ret>>

\* physician.py:101-103: the output file's content.
WritePhysicianOutput ==
    /\ phase = "physician"
    /\ idx > Len(messages)
    /\ phase' = "done"
    /\ ret' = Returned(Join(messages_with_details, "\n"))
    /\ UNCHANGED <<messages, secret, use_hmac, idx, identity_map, account_to_deid_map,
                   mother_to_deid_map, physician_mapping, messages_with_details, op, args>>

NextPhys == ProcessPhysicianMessage \/ WritePhysicianOutput

SpecPhys == InitPhys /\ [][NextPhys]_vars

\* The messages processed so far under SpecPhys, and field j of the PV1 fields of
\* message i before and after.
PhysProcessed == IF op = "physician_main" THEN 1..Len(messages_with_details) ELSE {}

PhysIn(i) == PV1Fields(messages[i])

PhysOut(i) == PV1Fields(messages_with_details[i])

\* The shape of every literal map_physician_field generates:
\* id^last^first^initial^^^role, the initial being the first letter of first.
HasGeneratedShape(f) ==
    \E parts \in {Split(f, "^")} :
        /\ Len(parts) = 7
        /\ Len(parts[1]) = 5
        /\ Len(parts[3]) >= 1
        /\ parts[4] = <<parts[3][1]>>
        /\ parts[5] = <<>> /\ parts[6] = <<>>

\* The (original field, output field) pairs of the PV1 fields processed so far.
PhysPairs ==
    UNION { UNION { {<<fin[j], fout[j]>> : j \in 1..Len(fin)}
                    : fin \in {PhysIn(i)}, fout \in {PhysOut(i)} } : i \in PhysProcessed }

PhysSameLength == \A i \in PhysProcessed : Len(PhysOut(i)) = Len(PhysIn(i))

\* Every recognised physician literal of a processed message is a key of the mapping
\* and its field holds the mapping's value, so the same literal is replaced alike in
\* every message.
PhysConsistent(pairs) ==
    \A p \in pairs :
        is_physician_field(p[1]) =>
            /\ HasKey(physician_mapping, p[1])
            /\ p[2] = physician_mapping[p[1]]
            /\ \A q \in pairs : q[1] = p[1] => q[2] = p[2]

----------------------------------------------------------------------------
(* Numbers and calendar dates (int(), datetime, calendar.monthrange).      *)

DigitValue(c) == (CHOOSE i \in 1..10 : DigitChars[i] = c) - 1

IsDigits(s) == Len(s) > 0 /\ \A i \in 1..Len(s) : s[i] \in SeqRange(DigitChars)

\* The value of a text of decimal digits.
RECURSIVE DigitsValueTo(_, _)
DigitsValueTo(s, n) == IF n = 0 THEN 0 ELSE 10 * DigitsValueTo(s, n - 1) + DigitValue(s[n])

DigitsValue(s) == Only({DigitsValueTo(t, Len(t)) : t \in {s}})

\* str(n) for n >= 0
RECURSIVE NatToText(_)
NatToText(n) ==
    IF n < 10 THEN <<DigitChars[n + 1]>> ELSE NatToText(n \div 10) \o <<DigitChars[(n % 10) + 1]>>

\* Left-pad with zeros to a width (format(n, "0Wd"), strftime's %Y, %m, %d).
ZeroPad(s, width) ==
    Only({ (IF Len(t) >= width THEN <<>> ELSE [i \in 1..(width - Len(t)) |-> "0"]) \o t
           : t \in {s} })

IsLeap(y) == (y % 4 = 0 /\ y % 100 # 0) \/ y % 400 = 0

\* calendar.monthrange(year, month)[1]
DaysInMonth(y, m) ==
    IF m = 2 THEN (IF IsLeap(y) THEN 29 ELSE 28)
    ELSE IF m \in {4, 6, 9, 11} THEN 30 ELSE 31

\* Whether datetime(year, month, day, hour, minute) is a date (else ValueError).
ValidDateTime(y, m, d, hh, mi) ==
    /\ y >= 1 /\ y <= 9999
    /\ m >= 1 /\ m <= 12
    /\ d >= 1 /\ d <= DaysInMonth(y, m)
    /\ hh >= 0 /\ hh <= 23
    /\ mi >= 0 /\ mi <= 59

\* datetime.min
DateTimeMin == <<1, 1, 1, 0, 0>>

\* datetime order: a <= b
RECURSIVE LexLeq(_, _)
LexLeq(a, b) ==
    IF Len(a) = 0 THEN TRUE
    ELSE IF a[1] < b[1] THEN TRUE
    ELSE IF a[1] > b[1] THEN FALSE
    ELSE LexLeq(Tail(a), Tail(b))

\* s[:n]
Prefix(s, n) == Only({SubSeq(t, 1, IF Len(t) < n THEN Len(t) ELSE n) : t \in {s}})

\* calendar.month_name[1..12]
MonthNames ==
    <<<<"J", "a", "n", "u", "a", "r", "y">>,
      <<"F", "e", "b", "r", "u", "a", "r", "y">>,
      <<"M", "a", "r", "c", "h">>,
      <<"A", "p", "r", "i", "l">>,
      <<"M", "a", "y">>,
      <<"J", "u", "n", "e">>,
      <<"J", "u", "l", "y">>,
      <<"A", "u", "g", "u", "s", "t">>,
      <<"S", "e", "p", "t", "e", "m", "b", "e", "r">>,
      <<"O", "c", "t", "o", "b", "e", "r">>,
      <<"N", "o", "v", "e", "m", "b", "e", "r">>,
      <<"D", "e", "c", "e", "m", "b", "e", "r">>>>

----------------------------------------------------------------------------
(* full.py:33-46 parse_hl7_date                                            *)

\* datetime.strptime(text, "%Y%m%d%H%M") / "%Y%m%d": the date, or DateTimeMin where
\* strptime raises (the except clause returns datetime.min).
StrpTime(dt_field, with_time) ==
    IF ~IsDigits(dt_field) THEN DateTimeMin
    ELSE Only({ IF ValidDateTime(y, m, d, hh, mi) THEN <<y, m, d, hh, mi>> ELSE DateTimeMin
                : y \in {DigitsValue(SubSeq(dt_field, 1, 4))},
                  m \in {DigitsValue(SubSeq(dt_field, 5, 6))},
                  d \in {DigitsValue(SubSeq(dt_field, 7, 8))},
                  hh \in {IF with_time THEN DigitsValue(SubSeq(dt_field, 9, 10)) ELSE 0},
                  mi \in {IF with_time THEN DigitsValue(SubSeq(dt_field, 11, 12)) ELSE 0} })

\* The loop returns at the first line that starts with MSH, has more than six
\* fields and a 12- or 8-character date; any other line is passed over.
RECURSIVE ParseDateFrom(_, _)
ParseDateFrom(lines, i) ==
    IF i > Len(lines) THEN DateTimeMin
    ELSE Only({ Only({ IF StartsWith(lines[i], MSHTag) /\ Len(fields) > 6
                              /\ Len(dt_field) = 12
                           THEN StrpTime(dt_field, TRUE)
                       ELSE IF StartsWith(lines[i], MSHTag) /\ Len(fields) > 6
                              /\ Len(dt_field) = 8
                           THEN StrpTime(dt_field, FALSE)
                       ELSE ParseDateFrom(lines, i + 1)
                       : dt_field \in {IF Len(fields) > 6 THEN Prefix(Strip(fields[7]), 12)
                                       ELSE <<>>} })
                : fields \in {Split(lines[i], "|")} })

parse_hl7_date(message) == Only({ParseDateFrom(lines, 1) : lines \in {SplitLines(message)}})

----------------------------------------------------------------------------
(* full.py:58-74 extract_fields_from_message                               *)

\* The first line that starts with PID, or 0.
RECURSIVE FirstPIDFrom(_, _)
FirstPIDFrom(lines, i) ==
    IF i > Len(lines) THEN 0
    ELSE IF StartsWith(lines[i], PIDTag) THEN i
    ELSE FirstPIDFrom(lines, i + 1)

FirstPID(lines) == FirstPIDFrom(lines, 1)

\* None and "" are both false where the code tests them; <<>> stands for either.
\* The fields of the first PID line, <<>> when there is none.
FirstPIDFields(lines) ==
    Only({IF p > 0 THEN Split(lines[p], "|") ELSE <<>> : p \in {FirstPID(lines)}})

extract_fields_from_message(msg) ==
    Only({ Only({ [facility |-> IF Len(msh_fields) >= 4 THEN msh_fields[4] ELSE <<>>,
                   pid_3 |-> IF Len(pid_fields) >= 4
                             THEN Strip(Split(Split(pid_fields[4], "~")[1], "^")[1])
                             ELSE <<>>]
                  : msh_fields \in {IF Len(lines) > 0 THEN Split(lines[1], "|") ELSE <<>>},
                    pid_fields \in {FirstPIDFields(lines)} })
           : lines \in {SplitLines(msg)} })

----------------------------------------------------------------------------
(* full.py:76-142 extract_patient_data                                     *)

\* A Python dict with keys among city, state, zipcode: the keys present and the
\* value of each (<<>> for a key that is not present).
EmptyLoc == [keys |-> {}, city |-> <<>>, state |-> <<>>, zipcode |-> <<>>]

\* full.py:101-106: the first repetition whose 5th component is AN.
RECURSIVE PID3AccountFrom(_, _)
PID3AccountFrom(reps, i) ==
    IF i > Len(reps) THEN <<>>
    ELSE Only({ IF Len(components) >= 5 /\ Upper(components[5]) = <<"A", "N">>
                THEN Strip(components[1])
                ELSE PID3AccountFrom(reps, i + 1)
                : components \in {Split(reps[i], "^")} })

\* pid_fields[k].strip() when the line has more than k fields, else "".
StrippedField(pid_fields, k) == IF Len(pid_fields) >= k + 1 THEN Strip(pid_fields[k + 1]) ELSE <<>>

\* full.py:116-124: the location dict of PID-11.
LocationOf(pid_fields) ==
    IF Len(pid_fields) < 12 THEN EmptyLoc
    ELSE Only({ [keys |-> (IF Len(address_parts) >= 4 THEN {"city", "state"} ELSE {})
                            \cup (IF Len(address_parts) >= 5 THEN {"zipcode"} ELSE {}),
                 city |-> IF Len(address_parts) >= 4 THEN Strip(address_parts[3]) ELSE <<>>,
                 state |-> IF Len(address_parts) >= 4 THEN Strip(address_parts[4]) ELSE <<>>,
                 zipcode |-> IF Len(address_parts) >= 5 THEN Strip(address_parts[5])
                             ELSE <<>>]
                : address_parts \in {Split(StrippedField(pid_fields, 11), "^")} })

\* full.py:107-114: "first last" from last^first, else the field as it is.
NameOf(pid_fields) ==
    Only({ Only({ IF Len(pid_fields) >= 6 /\ Len(name_parts) >= 2
                  THEN name_parts[2] \o <<" ">> \o name_parts[1]
                  ELSE name_field
                  : name_parts \in {Split(name_field, "^")} })
           : name_field \in {StrippedField(pid_fields, 5)} })

PatientDataOf(pid_fields) ==
    Only({ [pid_3 |-> IF Len(pid3_reps) > 0 THEN Strip(Split(pid3_reps[1], "^")[1]) ELSE <<>>,
            pid_3_account |-> PID3AccountFrom(pid3_reps, 1),
            pid_4 |-> StrippedField(pid_fields, 4),
            pid_5 |-> NameOf(pid_fields),
            pid_6 |-> StrippedField(pid_fields, 6),
            pid_7 |-> StrippedField(pid_fields, 7),
            pid_8 |-> StrippedField(pid_fields, 8),
            pid_9 |-> StrippedField(pid_fields, 9),
            pid_11 |-> LocationOf(pid_fields),
            pid_13 |-> StrippedField(pid_fields, 13),
            pid_14 |-> StrippedField(pid_fields, 14),
            pid_18 |-> StrippedField(pid_fields, 18),
            pid_19 |-> StrippedField(pid_fields, 19),
            pid_21 |-> StrippedField(pid_fields, 21)]
           : pid3_reps \in {IF Len(pid_fields) >= 4 THEN Split(pid_fields[4], "~") ELSE <<>>} })

extract_patient_data(msg) ==
    Only({ Only({PatientDataOf(pid_fields) : pid_fields \in {FirstPIDFields(lines)}})
           : lines \in {SplitLines(msg)} })

----------------------------------------------------------------------------
(* The random sources: Faker and random.randint.                           *)
(*                                                                         *)
(* Each call returns one element of a pool; MaxFake bounds how many of a     *)
(* pool's values are explored.  Nothing makes two calls return different   *)
(* values.                                                                 *)

MaxFake == 2

MaleNamePool ==
    <<<<"A", "l", " ", "F", "o", "x">>,
      <<"B", "o", " ", "R", "a", "y">>,
      <<"C", "y", " ", "P", "o", "e">>>>

FemaleNamePool ==
    <<<<"D", "i", " ", "F", "o", "x">>,
      <<"E", "v", "e", " ", "R", "a", "y">>,
      <<"F", "a", "y", " ", "P", "o", "e">>>>

MrnPool ==
    <<<<"1", "0", "0", "0", "0", "0", "0", "0", "0", "0">>,
      <<"9", "9", "9", "9", "9", "9", "9", "9", "9", "9">>,
      <<"5", "5", "5", "5", "5", "5", "5", "5", "5", "5">>>>

SsnPool ==
    <<<<"1", "1", "1", "-", "1", "1", "-", "1", "1", "1", "1">>,
      <<"2", "2", "2", "-", "2", "2", "-", "2", "2", "2", "2">>,
      <<"3", "3", "3", "-", "3", "3", "-", "3", "3", "3", "3">>>>

CityPool ==
    <<<<"T", "r", "o", "y">>,
      <<"O", "p", "p">>,
      <<"A", "m", "e", "s">>>>

ZipPool ==
    <<<<"3", "5", "0", "0", "4">>,
      <<"9", "9", "5", "0", "1">>,
      <<"1", "0", "0", "0", "1">>>>

AltIdPool ==
    <<<<"A", "1", "0", "0", "0">>,
      <<"Z", "9", "9", "9", "9">>,
      <<"M", "5", "0", "0", "0">>>>

LastNamePool ==
    <<<<"F", "o", "x">>,
      <<"R", "a", "y">>,
      <<"P", "o", "e">>>>

PhonePool ==
    <<<<"5", "5", "5", "-", "0", "1", "0", "0">>,
      <<"(", "2", "0", "5", ")", "5", "5", "5", "-", "0", "1", "0", "1">>,
      <<"5", "5", "5", "0", "1", "0", "2">>>>

\* random.randint(1, 12) and random.randint(1, monthrange): (month, day) pairs.
MonthDayPool == <<<<2, 29>>, <<1, 1>>, <<12, 31>>>>

Drawn(pool_seq) == {pool_seq[i] : i \in 1..MaxFake}

\* The value standing for a call that is not made.
NoDraw == <<>>

----------------------------------------------------------------------------
(* full.py:144-171 the generators                                          *)

\* int(original_dob_str[:4]), 1970 where int() raises (the texts with a sign, blanks
\* or underscores that int() also accepts are not among the inputs).
DobYear(original_dob_str) ==
    Only({ IF IsDigits(head) THEN DigitsValue(head) ELSE 1970
           : head \in {Prefix(original_dob_str, 4)} })

\* The (month, day) pairs random.randint can return for a date of birth.
DobDraws(original_dob_str) ==
    UNION { {md \in Drawn(MonthDayPool) : md[2] <= DaysInMonth(year, md[1])}
            : year \in {DobYear(original_dob_str)} }

\* A variant that never moves the year.
generate_fake_dob_unclamped(original_dob_str, today_year, md) ==
    Only({ [raises |-> ~ValidDateTime(year0, md[1], md[2], 0, 0),
            value |-> ZeroPad(NatToText(year0), 4) \o ZeroPad(NatToText(md[1]), 2)
                          \o ZeroPad(NatToText(md[2]), 2)]
           : year0 \in {DobYear(original_dob_str)} })

\* full.py:144-154: datetime(year, month, day) raises ValueError when the day does
\* not exist in the month of the year finally used.
generate_fake_dob(original_dob_str, today_year, md) ==
    Only({ Only({ [raises |-> ~ValidDateTime(year, md[1], md[2], 0, 0),
                   value |-> ZeroPad(NatToText(year), 4) \o ZeroPad(NatToText(md[1]), 2)
                                 \o ZeroPad(NatToText(md[2]), 2)]
                  : year \in {IF today_year - year0 >= 90 THEN today_year - 90 ELSE year0} })
           : year0 \in {DobYear(original_dob_str)} })

\* int(hexdigest, 16) % 10**11: the last 11 decimal digits.
AccountModulusDigits == 11

\* format(fake_num, "011d")
AccountWidth == 11

LastDigits(digits, n) ==
    Only({ IF Len(t) <= n THEN t ELSE SubSeq(t, Len(t) - n + 1, Len(t)) : t \in {digits} })

\* str(int(digits)): leading zeros dropped.
Canonical(digits) ==
    Only({ IF \A i \in 1..Len(t) : t[i] = "0" THEN <<"0">>
           ELSE SubSeq(t, CHOOSE i \in 1..Len(t) : t[i] # "0" /\ \A j \in 1..(i - 1) : t[j] = "0",
                       Len(t))
           : t \in {digits} })

\* A variant that writes the reduced number without padding (format "d").
AccountFromDigest_unpadded(digest) ==
    <<"H">> \o Canonical(LastDigits(digest, AccountModulusDigits))

\* full.py:170-171 from the digest's value
AccountFromDigest(digest) ==
    <<"H">> \o ZeroPad(Canonical(LastDigits(digest, AccountModulusDigits)), AccountWidth)

\* full.py:162-171
generate_fake_account_number(original_account, secret_key, hmac_flag) ==
    AccountFromDigest(IF hmac_flag /\ secret_key # <<>>
                      THEN HmacSha256(secret_key, original_account)
                      ELSE Sha256(original_account))

----------------------------------------------------------------------------
(* full.py:223-316 create_deidentified_dict                                *)

\* str.split() without a separator: the words between runs of whitespace.
\* A word starts at a character that is no whitespace and follows whitespace or
\* nothing, and runs to the next whitespace.
WordsAt(t, starts) ==
    [k \in 1..Cardinality(starts) |->
        Only({ SubSeq(t, b, CHOOSE e \in b..Len(t) :
                                /\ \A j \in b..e : t[j] \notin Whitespace
                                /\ (e = Len(t) \/ t[e + 1] \in Whitespace))
               : b \in {Nth(starts, k)} })]

Words(s) ==
    Only({ Only({ WordsAt(t, starts) \o <<>>
                  : starts \in {{i \in 1..Len(t) :
                                   /\ t[i] \notin Whitespace
                                   /\ (i = 1 \/ t[i - 1] \in Whitespace)}} })
           : t \in {s} })

\* "".join(filter(str.isdigit, phone))
OnlyDigits(s) == SelectSeq(s, LAMBDA c : c \in SeqRange(DigitChars))

\* re.match(r"^\^+$", x)
OnlyCarets(x) == Len(x) > 0 /\ \A i \in 1..Len(x) : x[i] = "^"

\* What the calls of one create_deidentified_dict can return: a call is made only
\* for an attribute the record carries.
IdentityDraws(original_data) ==
    LET sex == Upper(original_data.pid_8)
        names == IF sex = <<"M">> THEN Drawn(MaleNamePool)
                 ELSE IF sex = <<"F">> THEN Drawn(FemaleNamePool)
                 ELSE Drawn(MaleNamePool) \cup Drawn(FemaleNamePool)
        If(present, pool_set) == IF present THEN pool_set ELSE {NoDraw}
    IN  [name : If(original_data.pid_5 # <<>>, names),
         mrn : If(original_data.pid_3 # <<>>, Drawn(MrnPool)),
         dob_md : If(original_data.pid_7 # <<>>, DobDraws(original_data.pid_7)),
         ssn : If(original_data.pid_19 # <<>>, Drawn(SsnPool)),
         city : If(original_data.pid_11.state # <<>>, Drawn(CityPool)),
         zipcode : If(original_data.pid_11.state # <<>>, Drawn(ZipPool)),
         alt : If(original_data.pid_4 # <<>>, Drawn(AltIdPool)),
         maiden : If(original_data.pid_6 # <<>>, Drawn(LastNamePool)),
         phone_13 : If(original_data.pid_13 # <<>>, Drawn(PhonePool)),
         phone_14 : If(original_data.pid_14 # <<>>, Drawn(PhonePool))]

\* full.py:276-284: the forms of the date of birth.
DobForms(dob_orig) ==
    LET year == SubSeq(dob_orig, 1, 4)
        month == SubSeq(dob_orig, 5, 6)
        day == SubSeq(dob_orig, 7, 8)
        dash == <<"-">>
        slash == <<"/">>
        m == DigitsValue(month)
    IN  <<dob_orig,
          year \o dash \o month \o dash \o day,
          month \o dash \o day \o dash \o year,
          day \o dash \o month \o dash \o year,
          year \o slash \o month \o slash \o day,
          month \o slash \o day \o slash \o year,
          day \o slash \o month \o slash \o year,
          month \o slash \o day,
          (IF m = 0 THEN <<>> ELSE MonthNames[m]) \o <<" ">> \o day \o <<",", " ">> \o year>>

\* calendar.month_name[int(month)] raises for a month that is no number or above 12
\* (the texts with a sign or blanks that int() also accepts are not among the inputs).
DobFormsRaise(dob_orig) ==
    LET month == SubSeq(dob_orig, 5, 6)
    IN  ~IsDigits(month) \/ DigitsValue(month) > 12

\* full.py:285-291
PhoneForms(phone) ==
    IF phone = <<>> THEN <<>>
    ELSE Only({ <<phone>> \o (IF alt_phone # <<>> /\ alt_phone # phone THEN <<alt_phone>>
                              ELSE <<>>)
                : alt_phone \in {OnlyDigits(phone)} })

NonEmptyOnly(texts) == SelectSeq(texts, LAMBDA x : x # <<>>)

\* full.py:269-295
SensitiveInfo(original_data) ==
    LET name_forms == IF original_data.pid_5 = <<>> THEN <<>>
                      ELSE Only({ <<original_data.pid_5>>
                                      \o (IF Len(parts) >= 2
                                          THEN <<parts[1], Join(Tail(parts), " ")>> ELSE <<>>)
                                  : parts \in {Words(original_data.pid_5)} })
        dob_forms == IF original_data.pid_7 = <<>> THEN <<>>
                     ELSE IF Len(original_data.pid_7) = 8 THEN DobForms(original_data.pid_7)
                     ELSE <<original_data.pid_7>>
        all == name_forms \o dob_forms
                   \o PhoneForms(original_data.pid_13) \o PhoneForms(original_data.pid_14)
                   \o NonEmptyOnly(<<original_data.pid_19, original_data.pid_3,
                                     original_data.pid_4, original_data.pid_6,
                                     original_data.pid_9>>)
    IN  SelectSeq(all, LAMBDA x : ~OnlyCarets(x))

\* full.py:226-242
NewName(original_data, draw) ==
    IF original_data.pid_5 = <<>> THEN <<>>
    ELSE Only({ IF Len(name_parts) >= 2
                THEN name_parts[Len(name_parts)] \o <<"^">> \o name_parts[1]
                ELSE draw.name
                : name_parts \in {Words(draw.name)} })

\* The result is the dict, or raises when generate_fake_dob or the month name
\* lookup raises.  `original_data` is main's patient_data, whose account fields
\* main has already replaced.
create_deidentified_dict(unique_id, original_data, deid_physicians, account_map, today_year, draw) ==
    Only({
        [raises |-> dob.raises
                      \/ (Len(original_data.pid_7) = 8 /\ DobFormsRaise(original_data.pid_7)),
         dict |->
           [unique_id |-> unique_id,
            new_pid_3 |-> IF original_data.pid_3 # <<>> THEN draw.mrn ELSE <<>>,
            new_pid_4 |-> IF original_data.pid_4 # <<>> THEN draw.alt ELSE <<>>,
            new_pid_5 |-> new_pid_5,
            new_pid_6 |-> IF original_data.pid_6 # <<>> THEN draw.maiden ELSE <<>>,
            new_pid_7 |-> dob.value,
            new_pid_8 |-> original_data.pid_8,
            new_pid_9 |-> IF original_data.pid_9 # <<>> THEN new_pid_5 ELSE <<>>,
            new_pid_11 |-> new_pid_11,
            new_pid_13 |-> IF original_data.pid_13 # <<>> THEN draw.phone_13 ELSE <<>>,
            new_pid_14 |-> IF original_data.pid_14 # <<>> THEN draw.phone_14 ELSE <<>>,
            new_pid_18 |-> DictGet(account_map, original_data.pid_18, original_data.pid_18),
            new_pid_19 |-> IF original_data.pid_19 # <<>> THEN draw.ssn ELSE <<>>,
            new_pid_21 |-> IF original_data.pid_21 # <<>>
                           THEN DictGet(account_map, original_data.pid_21,
                                        original_data.pid_21)
                           ELSE <<>>,
            new_pid_3_account |-> DictGet(account_map, original_data.pid_3_account, <<>>),
            sensitive_info |-> IF Len(original_data.pid_7) = 8
                                    /\ DobFormsRaise(original_data.pid_7)
                               THEN <<>> ELSE SensitiveInfo(original_data),
            deid_physicians |-> deid_physicians]]
        : new_pid_5 \in {NewName(original_data, draw)},
          dob \in {IF original_data.pid_7 # <<>>
                   THEN generate_fake_dob(original_data.pid_7, today_year, draw.dob_md)
                   ELSE [raises |-> FALSE, value |-> <<>>]},
          new_pid_11 \in {IF original_data.pid_11.state # <<>>
                          THEN [keys |-> {"state", "city", "zipcode"},
                                city |-> draw.city, state |-> original_data.pid_11.state,
                                zipcode |-> draw.zipcode]
                          ELSE EmptyLoc} })

----------------------------------------------------------------------------
(* full.py:178-221 deidentify_hl7_message                                  *)

\* A variant of the padding that also cuts a longer line down to n fields.
PadFields_cutting(fields, n) ==
    Only({ IF Len(f) >= n THEN SubSeq(f, 1, n) ELSE f \o Empties(n - Len(f))
           : f \in {fields} })

\* full.py:184-185
PadFields(fields, n) ==
    Only({ IF Len(f) >= n THEN f ELSE f \o Empties(n - Len(f)) : f \in {fields} })

PIDFieldCount == 22

DummyAccountRep == <<"d", "u", "m", "m", "y", "^", "^", "^", "^", "A", "N">>

\* full.py:197-208: the address is rebuilt from "", city, state, zipcode and padded
\* to the original's component count.
RewriteAddress(orig_address, new_pid_11) ==
    Only({ Join(IF Len(new_components) < Len(orig_components)
                THEN new_components \o Empties(Len(orig_components) - Len(new_components))
                ELSE new_components, "^")
           : orig_components \in {Split(orig_address, "^")},
             new_components \in {<<<<>>, new_pid_11.city, new_pid_11.state,
                                   new_pid_11.zipcode>>} })

\* full.py:183-215: the rewritten PID line.  Python's pid_fields[k] is fields[k + 1].
RewrittenPIDFields(pid_fields, deid_dict) ==
    LET pid3 == preserve_carets(pid_fields[4], deid_dict.new_pid_3)
        Rewritten(k) ==
            CASE k = 3 -> IF deid_dict.new_pid_3_account # <<>>
                          THEN pid3 \o <<"~">>
                                   \o preserve_carets(DummyAccountRep, deid_dict.new_pid_3_account)
                          ELSE pid3
              [] k = 4 -> preserve_carets(pid_fields[5], deid_dict.new_pid_4)
              [] k = 5 -> preserve_carets(pid_fields[6], deid_dict.new_pid_5)
              [] k = 6 -> preserve_carets(pid_fields[7], deid_dict.new_pid_6)
              [] k = 7 -> preserve_carets(pid_fields[8], deid_dict.new_pid_7)
              [] k = 8 -> preserve_carets(pid_fields[9], deid_dict.new_pid_8)
              [] k = 9 -> preserve_carets(pid_fields[10], deid_dict.new_pid_9)
              [] k = 11 -> RewriteAddress(pid_fields[12], deid_dict.new_pid_11)
              [] k = 13 -> preserve_carets(pid_fields[14], deid_dict.new_pid_13)
              [] k = 14 -> preserve_carets(pid_fields[15], deid_dict.new_pid_14)
              [] k = 18 -> preserve_carets(pid_fields[19], deid_dict.new_pid_18)
              [] k = 19 -> preserve_carets(pid_fields[20], deid_dict.new_pid_19)
              [] k = 21 -> preserve_carets(pid_fields[22], deid_dict.new_pid_21)
              [] OTHER -> pid_fields[k + 1]
    IN  [i \in 1..Len(pid_fields) |-> Rewritten(i - 1)]

RewritePIDLine(line, deid_dict) ==
    Only({ Join(RewrittenPIDFields(pid_fields, deid_dict), "|")
           : pid_fields \in {PadFields(Split(line, "|"), PIDFieldCount)} })

\* full.py:181-220: the loop over the lines; a PV1 line goes through
\* physician.process_hl7_message, which may add to the physician mapping.
RECURSIVE DeidentifyLines(_, _, _, _, _, _)
DeidentifyLines(lines, deid_dict, mapping, draws, i, acc) ==
    IF i > Len(lines) THEN [lines |-> acc, mapping |-> mapping]
    ELSE IF StartsWith(lines[i], PIDTag)
         THEN Only({ DeidentifyLines(lines, deid_dict, mapping, draws, i + 1, Append(acc, line))
                     : line \in {RewritePIDLine(lines[i], deid_dict)} })
    ELSE IF StartsWith(lines[i], PV1Tag)
         THEN Only({ DeidentifyLines(lines, deid_dict, r.mapping, draws, i + 1,
                                     Append(acc, r.message))
                     : r \in {process_hl7_message(lines[i], mapping, draws)} })
    ELSE DeidentifyLines(lines, deid_dict, mapping, draws, i + 1, Append(acc, lines[i]))

deidentify_hl7_message(msg, deid_dict, mapping, draws) ==
    Only({ Only({ [message |-> Join(r.lines, "\n"), mapping |-> r.mapping]
                  : r \in {DeidentifyLines(lines, deid_dict, mapping, draws, 1, <<>>)} })
           : lines \in {SplitLines(msg)} })

\* full.py:173-176
append_deid_segment(msg, deid_dict) == msg

----------------------------------------------------------------------------
(* full.py:318-403 main                                                    *)

\* datetime.today().year of the run.
CurrentYear == 2026

\* A variant of pass 1 that numbers the accounts in the order it meets them.
Pass1Register_counting(account_map, patient_data, secret_key, hmac_flag) ==
    Only({ IF patient_data.pid_3_account # <<>> /\ ~HasKey(m1, patient_data.pid_3_account)
           THEN DictSet(m1, patient_data.pid_3_account,
                        AccountFromDigest(NatToText(Cardinality(DOMAIN m1))))
           ELSE m1
           : m1 \in {IF patient_data.pid_18 # <<>>
                        /\ ~HasKey(account_map, patient_data.pid_18)
                     THEN DictSet(account_map, patient_data.pid_18,
                                  AccountFromDigest(NatToText(Cardinality(DOMAIN account_map))))
                     ELSE account_map} })

\* A variant of pass 1 that registers the PID-18 account only.
Pass1Register_pid18only(account_map, patient_data, secret_key, hmac_flag) ==
    IF patient_data.pid_18 # <<>> /\ ~HasKey(account_map, patient_data.pid_18)
    THEN DictSet(account_map, patient_data.pid_18,
                 generate_fake_account_number(patient_data.pid_18, secret_key, hmac_flag))
    ELSE account_map

\* full.py:338-351: one iteration of pass 1.
Pass1Register(account_map, patient_data, secret_key, hmac_flag) ==
    Only({ IF patient_data.pid_3_account # <<>> /\ ~HasKey(m1, patient_data.pid_3_account)
           THEN DictSet(m1, patient_data.pid_3_account,
                        generate_fake_account_number(patient_data.pid_3_account, secret_key,
                                                     hmac_flag))
           ELSE m1
           : m1 \in {IF patient_data.pid_18 # <<>>
                        /\ ~HasKey(account_map, patient_data.pid_18)
                     THEN DictSet(account_map, patient_data.pid_18,
                                  generate_fake_account_number(patient_data.pid_18,
                                                               secret_key, hmac_flag))
                     ELSE account_map} })

Pass1Step ==
    /\ phase = "pass1"
    /\ idx <= Len(messages)
    /\ \E patient_data \in {extract_patient_data(messages[idx])} :
          account_to_deid_map' =
              Pass1Register(account_to_deid_map, patient_data, secret, use_hmac)
    /\ IF idx = Len(messages)
       THEN phase' = "pass2" /\ idx' = 1
       ELSE phase' = phase /\ idx' = idx + 1
    /\ UNCHANGED <<messages, secret, use_hmac, identity_map, mother_to_deid_map,
                   physician_mapping, messages_with_details, op, args, ret>>

\* full.py:367-374: the mother map after the PID-21 lookup.
MotherMapAfter(mother_map, account_map, pid_21, secret_key, hmac_flag) ==
    IF pid_21 # <<>> /\ ~HasKey(account_map, pid_21) /\ ~HasKey(mother_map, pid_21)
    THEN DictSet(mother_map, pid_21,
                 generate_fake_account_number(pid_21, secret_key, hmac_flag))
    ELSE mother_map

\* full.py:362-374: patient_data with its account fields replaced from the maps.
\* account_to_deid_map[key] raises KeyError for a key pass 1 did not register.
AccountLookupRaises(account_map, data) ==
    \/ (data.pid_18 # <<>> /\ ~HasKey(account_map, data.pid_18))
    \/ (data.pid_3_account # <<>> /\ ~HasKey(account_map, data.pid_3_account))

WithMappedAccounts(data, account_map, mother_map) ==
    [data EXCEPT
       !.pid_18 = IF data.pid_18 # <<>> THEN account_map[data.pid_18] ELSE data.pid_18,
       !.pid_3_account = IF data.pid_3_account # <<>> THEN account_map[data.pid_3_account]
                         ELSE data.pid_3_account,
       !.pid_21 = IF data.pid_21 = <<>> THEN data.pid_21
                  ELSE IF HasKey(account_map, data.pid_21) THEN account_map[data.pid_21]
                  ELSE mother_map[data.pid_21]]

\* A variant of the registry lookup that never finds the key, so that every message
\* gets a newly generated identity.
IdentityKnown_never(id_map, unique_key) == FALSE

\* full.py:376
IdentityKnown(id_map, unique_key) == HasKey(id_map, unique_key)

\* full.py:352-388: one iteration of pass 2.  An uncaught exception ends the run.
Pass2Step ==
    /\ phase = "pass2"
    /\ idx <= Len(messages)
    /\ \E msg \in {messages[idx]} :
       \E dt \in {Only({IF Len(lines) > 0 THEN parse_hl7_date(lines[1]) ELSE DateTimeMin
                        : lines \in {SplitLines(msg)}})},
          fp \in {extract_fields_from_message(msg)},
          data \in {extract_patient_data(msg)} :
       \E unique_key \in {IF fp.facility # <<>> /\ fp.pid_3 # <<>>
                          THEN generate_unique_key(fp.facility, fp.pid_3, secret, use_hmac)
                          ELSE <<>>} :
          IF AccountLookupRaises(account_to_deid_map, data)
          THEN /\ phase' = "crashed"
               /\ UNCHANGED <<idx, identity_map, mother_to_deid_map, physician_mapping,
                              messages_with_details>>
          ELSE \E mother_map \in {MotherMapAfter(mother_to_deid_map, account_to_deid_map,
                                                 data.pid_21, secret, use_hmac)} :
               \E patient_data \in {WithMappedAccounts(data, account_to_deid_map, mother_map)},
                  known \in {IdentityKnown(identity_map, unique_key)} :
               \E pdraws \in [NewPhysicianLiterals(msg, physician_mapping) -> PhysicianDraws],
                  idraw \in (IF known THEN {NoDraw} ELSE IdentityDraws(patient_data)) :
               \E ex \in {IF known
                          THEN [fake_physicians |-> <<>>, mapping |-> physician_mapping]
                          ELSE extract_physician_fields(msg, physician_mapping, pdraws)} :
               \E created \in {IF known
                               THEN [raises |-> FALSE, dict |-> identity_map[unique_key]]
                               ELSE create_deidentified_dict(unique_key, patient_data,
                                        ex.fake_physicians, account_to_deid_map,
                                        CurrentYear, idraw)} :
                  IF created.raises
                  THEN /\ phase' = "crashed"
                       /\ mother_to_deid_map' = mother_map
                       /\ physician_mapping' = ex.mapping
                       /\ UNCHANGED <<idx, identity_map, messages_with_details>>
                  ELSE \E de \in {deidentify_hl7_message(msg, created.dict, ex.mapping,
                                                         pdraws)} :
                       /\ mother_to_deid_map' = mother_map
                       /\ identity_map' = IF known THEN identity_map
                                          ELSE DictSet(identity_map, unique_key, created.dict)
                       /\ physician_mapping' = de.mapping
                       /\ messages_with_details' =
                             Append(messages_with_details,
                                    [dt |-> dt, orig_msg |-> msg,
                                     deid_msg |-> append_deid_segment(de.message, created.dict),
                                     unique_key |-> unique_key, facility |-> fp.facility,
                                     pid_3 |-> fp.pid_3, deid_dict |-> created.dict])
                       /\ IF idx = Len(messages)
                          THEN phase' = "sort" /\ idx' = idx
                          ELSE phase' = phase /\ idx' = idx + 1
    /\ UNCHANGED <<messages, secret, use_hmac, account_to_deid_map, op, args, ret>>

\* A variant of the insertion that puts an element before the elements of equal key
\* (an unstable sort).
RECURSIVE InsertByDt_unstable(_, _)
InsertByDt_unstable(sorted, x) ==
    IF Len(sorted) = 0 THEN <<x>>
    ELSE IF LexLeq(sorted[Len(sorted)].dt, x.dt) /\ sorted[Len(sorted)].dt # x.dt
    THEN Append(sorted, x)
    ELSE Only({ Append(InsertByDt_unstable(front, x), sorted[Len(sorted)])
                : front \in {SubSeq(sorted, 1, Len(sorted) - 1)} })

\* list.sort(key=...) is stable: an element goes after every element whose key is
\* not greater.
RECURSIVE InsertByDt(_, _)
InsertByDt(sorted, x) ==
    IF Len(sorted) = 0 THEN <<x>>
    ELSE IF LexLeq(sorted[Len(sorted)].dt, x.dt) THEN Append(sorted, x)
    ELSE Only({ Append(InsertByDt(front, x), sorted[Len(sorted)])
                : front \in {SubSeq(sorted, 1, Len(sorted) - 1)} })

RECURSIVE SortByDtFrom(_, _, _)
SortByDtFrom(q, i, acc) ==
    IF i > Len(q) THEN acc
    ELSE Only({SortByDtFrom(q, i + 1, next) : next \in {InsertByDt(acc, q[i])}})

SortByDt(q) == SortByDtFrom(q, 1, <<>>)

\* full.py:394-399: what is written to the output file.
RECURSIVE OutputTextFrom(_, _)
OutputTextFrom(details, i) ==
    IF i > Len(details) THEN <<>>
    ELSE details[i].deid_msg \o <<"\n", "\n">> \o OutputTextFrom(details, i + 1)

OutputText(details) == OutputTextFrom(details, 1)

\* full.py:393-403
SortAndWrite ==
    /\ phase = "sort"
    /\ \E sorted \in {SortByDt(messages_with_details)} :
          /\ messages_with_details' = sorted
          /\ ret' = Returned(OutputText(sorted))
    /\ phase' = "done"
    /\ UNCHANGED <<messages, secret, use_hmac, idx, identity_map, account_to_deid_map,
                   mother_to_deid_map, physician_mapping, op, args>>

Next == Pass1Step \/ Pass2Step \/ SortAndWrite

----------------------------------------------------------------------------
(* The batches of the main specification.                                  *)

MSHLine(facility, timestamp) ==
    Join(<<MSHTag, <<"^", "~", "\\", "&">>, <<"A">>, facility, <<"B">>, <<"G">>, timestamp>>, "|")

\* A PID line of 22 fields from the fields that carry identity attributes.
PIDLine(f) ==
    Join(<<PIDTag, <<"1">>, <<>>, f.pid3, f.pid4, f.name, f.maiden, f.dob, f.sex, f.alias,
           <<>>, f.address, <<>>, f.phone13, f.phone14, <<>>, <<>>, <<>>, f.pid18, f.pid19,
           <<>>, f.pid21>>, "|")

NoAttributes ==
    [pid3 |-> <<>>, pid4 |-> <<>>, name |-> <<>>, maiden |-> <<>>, dob |-> <<>>, sex |-> <<>>,
     alias |-> <<>>, address |-> <<>>, phone13 |-> <<>>, phone14 |-> <<>>, pid18 |-> <<>>,
     pid19 |-> <<>>, pid21 |-> <<>>]

\* A message as re.split leaves it: its lines, each ended by a newline.
Message(facility, timestamp, f, pv1_fields) ==
    MSHLine(facility, timestamp) \o <<"\n">> \o PIDLine(f) \o <<"\n">>
        \o (IF Len(pv1_fields) = 0 THEN <<>>
            ELSE Join(<<PV1Tag>> \o pv1_fields, "|") \o <<"\n">>)

\* A physician literal of eight components.
LongPhysicianLiteral == <<"a", "^", "b", "^", "c", "^", "d", "^", "e", "^", "f", "^", "g", "^", "d", "o">>

PhysicianLiteral == <<"a", "^", "b", "^", "c", "^", "M", "D">>

\* Patient (F, 1), first visit: name, date of birth, SSN, account a, a physician.
Patient1Visit1 ==
    Message(<<"F">>, <<"2", "0", "2", "5", "0", "1", "0", "2", "1", "2", "0", "0">>,
            [NoAttributes EXCEPT !.pid3 = <<"1">>,
                                 !.name = <<"D", "o", "e", "^", "A", "l">>,
                                 !.dob = <<"1", "9", "8", "0", "0", "3", "1", "5">>,
                                 !.sex = <<"M">>, !.pid18 = <<"a">>,
                                 !.pid19 = <<"1", "2", "3", "-", "4", "5", "-", "6", "7", "8", "9">>],
            <<<<"1">>, PhysicianLiteral>>)

\* Patient (F, 1), an earlier visit: no name, date of birth or SSN; account b.
Patient1Visit2 ==
    Message(<<"F">>, <<"2", "0", "2", "5", "0", "1", "0", "1">>,
            [NoAttributes EXCEPT !.pid3 = <<"1">>, !.pid18 = <<"b">>], <<>>)

\* Patient (F, 2): owns account a, references account b, no date in MSH-7.
Patient2Visit ==
    Message(<<"F">>, <<>>,
            [NoAttributes EXCEPT !.pid3 = <<"2">>, !.pid18 = <<"a">>, !.pid21 = <<"b">>],
            <<<<"1">>, LongPhysicianLiteral>>)

\* No facility in MSH-4.
NoFacilityMessage ==
    Message(<<>>, <<"2", "0", "2", "5", "0", "1", "0", "2", "1", "2", "0", "0">>,
            [NoAttributes EXCEPT !.pid3 = <<"1">>, !.pid18 = <<"a">>], <<>>)

\* No primary identifier in PID-3.
NoPrimaryIdMessage ==
    Message(<<"F">>, <<"2", "0", "2", "5", "0", "1", "0", "3">>,
            [NoAttributes EXCEPT !.name = <<"R", "o", "e", "^", "B", "o">>, !.sex = <<"M">>,
                                 !.pid18 = <<"b">>],
            <<>>)

\* PID-3 carries an AN-tagged account repetition, PID-21 an account no record owns.
TaggedAccountMessage ==
    Message(<<"F">>, <<"2", "0", "2", "5", "0", "1", "0", "1">>,
            [NoAttributes EXCEPT !.pid3 = <<"2", "~", "b", "^", "^", "^", "^", "A", "N">>, !.pid21 = <<"c">>],
            <<<<"1">>, PhysicianLiteral>>)

\* Patient (F, 3) with a date of birth of eight digits whose month is 13.
BadDobMessage ==
    Message(<<"F">>, <<"2", "0", "2", "5", "0", "1", "0", "4">>,
            [NoAttributes EXCEPT !.pid3 = <<"3">>,
                                 !.dob = <<"1", "9", "8", "0", "1", "3", "0", "1">>,
                                 !.pid18 = <<"a">>],
            <<>>)

MainMessages ==
    {Patient1Visit1, Patient1Visit2, Patient2Visit, NoFacilityMessage, NoPrimaryIdMessage,
     TaggedAccountMessage, BadDobMessage}

\* Bound on the number of messages of a batch drawn freely from MainMessages.
MaxMessages == 2

\* The batches of three that hold the two visits of patient (F, 1) and the visit of
\* patient (F, 2), in every order.
CrossReferenceBatches ==
    {q \in SeqsOfLen({Patient1Visit1, Patient1Visit2, Patient2Visit}, 3) :
        SeqRange(q) = {Patient1Visit1, Patient1Visit2, Patient2Visit}}

\* Batches of three in which two records have the same header timestamp and the
\* record with the earliest timestamp comes last.
TieBatches ==
    {<<Patient1Visit1, NoFacilityMessage, Patient1Visit2>>,
     <<NoFacilityMessage, Patient1Visit1, Patient1Visit2>>}

\* Patient (F, 4) with an address street^other^city^state^zip.
AddressMessage ==
    Message(<<"F">>, <<"2", "0", "2", "5", "0", "1", "0", "5">>,
            [NoAttributes EXCEPT !.pid3 = <<"4">>,
                                 !.address = <<"1", " ", "E", "l", "m", "^", "^", "E", "l", "y", "^", "A", "L", "^", "3", "6", "4", "6", "7">>,
                                 !.pid18 = <<"a">>],
            <<>>)

\* The batch of the record with an address.
AddressBatches == {<<AddressMessage>>}

\* Two records of different patients whose 14-digit header timestamps differ only in
\* the seconds.
SecondsLateMessage ==
    Message(<<"F">>, <<"2", "0", "2", "5", "0", "1", "0", "6", "1", "2", "0", "0", "3", "0">>,
            [NoAttributes EXCEPT !.pid3 = <<"5">>], <<>>)

SecondsEarlyMessage ==
    Message(<<"F">>, <<"2", "0", "2", "5", "0", "1", "0", "6", "1", "2", "0", "0", "1", "0">>,
            [NoAttributes EXCEPT !.pid3 = <<"6">>], <<>>)

\* The batches of the two, in either order.
SecondsBatches ==
    {<<SecondsLateMessage, SecondsEarlyMessage>>, <<SecondsEarlyMessage, SecondsLateMessage>>}

MainBatches ==
    Batches(MainMessages, MaxMessages) \cup CrossReferenceBatches \cup TieBatches
        \cup AddressBatches \cup SecondsBatches

\* --secret and --use_hmac as given on the command line.
SecretSettings == {<<<<>>, FALSE>>, <<<<"k">>, TRUE>>}

Init ==
    /\ messages \in MainBatches
    /\ \E setting \in SecretSettings : secret = setting[1] /\ use_hmac = setting[2]
    /\ phase = "pass1"
    /\ idx = 1
    /\ identity_map = EmptyDict
    /\ account_to_deid_map = EmptyDict
    /\ mother_to_deid_map = EmptyDict
    /\ physician_mapping = EmptyDict
    /\ messages_with_details = <<>>
    /\ op = "main"
    /\ args = <<>>
    /\ ret = NotCalled

Spec == Init /\ [][Next]_vars

----------------------------------------------------------------------------
(* The records of a run of main as the properties see them.                *)

\* Whether a record has a correlation key (full.py:358).
HasCorrelationKey(facility, pid_3) == facility # <<>> /\ pid_3 # <<>>

\* The PID fields of a message text, padded to the 22 of a full PID line.
PIDFieldsOf(msg) ==
    Only({PadFields(FirstPIDFields(lines), PIDFieldCount) : lines \in {SplitLines(msg)}})

\* One processed record: its position in messages_with_details, what was extracted
\* from the input, the bundle applied, and the PID and PV1 fields before and after.
RecordView(i) ==
    Only({ [i |-> i, facility |-> d.facility, pid_3 |-> d.pid_3, unique_key |-> d.unique_key,
            deid_dict |-> d.deid_dict,
            raw |-> extract_patient_data(d.orig_msg),
            written |-> extract_patient_data(d.deid_msg),
            pid_in |-> PIDFieldsOf(d.orig_msg), pid_out |-> PIDFieldsOf(d.deid_msg),
            pv1_in |-> PV1Fields(d.orig_msg), pv1_out |-> PV1Fields(d.deid_msg)]
           : d \in {messages_with_details[i]} })

RecordViews ==
    IF op = "main" THEN {RecordView(i) : i \in 1..Len(messages_with_details)} ELSE {}

\* Python's pid_fields[k] of a padded PID line.
PIDField(fields, k) == fields[k + 1]

----------------------------------------------------------------------------
(* C1                                                                      *)

\* The identity bundle of the claim: synthetic name, date of birth, primary
\* identifier and SSN.
IdentityBundle(deid_dict) ==
    <<deid_dict.new_pid_5, deid_dict.new_pid_7, deid_dict.new_pid_3, deid_dict.new_pid_19>>

\* C1: any two processed records of a run with the same non-empty facility and the
\* same non-empty primary identifier were given the same bundle (the same synthetic
\* name, date of birth, primary identifier and SSN, and indeed the same dict), and
\* the PID-5, PID-7, PID-3 and PID-19 written for each are that bundle's values, padded
\* to the components of the field they replace.
C1_SameKeySameBundle ==
    \A views \in {RecordViews} :
        /\ \A r1, r2 \in views :
              (HasCorrelationKey(r1.facility, r1.pid_3)
                 /\ r1.facility = r2.facility /\ r1.pid_3 = r2.pid_3)
                  => /\ IdentityBundle(r1.deid_dict) = IdentityBundle(r2.deid_dict)
                     /\ r1.deid_dict = r2.deid_dict
        /\ \A r \in views :
              /\ PIDField(r.pid_out, 5)
                     = preserve_carets(PIDField(r.pid_in, 5), r.deid_dict.new_pid_5)
              /\ PIDField(r.pid_out, 7)
                     = preserve_carets(PIDField(r.pid_in, 7), r.deid_dict.new_pid_7)
              /\ PIDField(r.pid_out, 19)
                     = preserve_carets(PIDField(r.pid_in, 19), r.deid_dict.new_pid_19)
              /\ r.deid_dict.new_pid_3_account = <<>>
                     => PIDField(r.pid_out, 3)
                            = preserve_carets(PIDField(r.pid_in, 3), r.deid_dict.new_pid_3)

\* The run is over and two records of the same patient that differ in their other
\* fields were both given a bundle with a name, a date of birth, an identifier and an SSN.
C1_Witness ==
    /\ op = "main" /\ phase = "done"
    /\ \E r1, r2 \in RecordViews :
          /\ r1.i # r2.i
          /\ HasCorrelationKey(r1.facility, r1.pid_3)
          /\ r1.facility = r2.facility /\ r1.pid_3 = r2.pid_3
          /\ r1.raw # r2.raw
          /\ \A k \in 1..4 : IdentityBundle(r1.deid_dict)[k] # <<>>
          /\ IdentityBundle(r1.deid_dict) = IdentityBundle(r2.deid_dict)

----------------------------------------------------------------------------
(* C2, C3                                                                  *)

\* C2 as stated: if a raw account value is the PID-18 of a record R1 and the PID-21
\* of a record R2 of the run, the value written to R1's PID-18 equals the value
\* written to R2's PID-21.
C2_AsClaimed ==
    \A views \in {RecordViews} : \A r1, r2 \in views :
        (r1.raw.pid_18 # <<>> /\ r1.raw.pid_18 = r2.raw.pid_21)
            => PIDField(r1.pid_out, 18) = PIDField(r2.pid_out, 21)

\* C3 as stated: two records of the run with the same non-empty original PID-18 have
\* equal PID-18 in their outputs, and two records with the same non-empty original
\* PID-21 have equal PID-21 in their outputs.
C3_AsClaimed ==
    \A views \in {RecordViews} : \A r1, r2 \in views :
        /\ (r1.raw.pid_18 # <<>> /\ r1.raw.pid_18 = r2.raw.pid_18)
               => PIDField(r1.pid_out, 18) = PIDField(r2.pid_out, 18)
        /\ (r1.raw.pid_21 # <<>> /\ r1.raw.pid_21 = r2.raw.pid_21)
               => PIDField(r1.pid_out, 21) = PIDField(r2.pid_out, 21)

----------------------------------------------------------------------------
(* C4                                                                      *)

\* Every key of the registry before the step has the same value after it.
KeepsEntries(before, after) ==
    \A k \in DOMAIN before : k \in DOMAIN after /\ after[k] = before[k]

\* The record a step of pass 2 appends, as a set with at most one element.
Appended ==
    IF op = "main" /\ phase = "pass2"
         /\ Len(messages_with_details') = Len(messages_with_details) + 1
    THEN {messages_with_details'[Len(messages_with_details')]}
    ELSE {}

\* What a step looks up and what the lookup returns: the bundle applied to the record
\* is the registry's entry for its key, the one held before the step where there was
\* one; each physician literal of the record is replaced by the registry's entry, the
\* one held before the step where there was one.
LookupsReturnEntries ==
    \A d \in Appended :
        /\ HasKey(identity_map', d.unique_key)
        /\ identity_map'[d.unique_key] = d.deid_dict
        /\ HasKey(identity_map, d.unique_key) => d.deid_dict = identity_map[d.unique_key]
        /\ \A fin \in {PV1Fields(d.orig_msg)}, fout \in {PV1Fields(d.deid_msg)} :
              \A j \in 1..Len(fin) :
                 is_physician_field(fin[j]) =>
                    /\ HasKey(physician_mapping', fin[j])
                    /\ fout[j] = physician_mapping'[fin[j]]
                    /\ HasKey(physician_mapping, fin[j]) => fout[j] = physician_mapping[fin[j]]

\* C4: no step of a run changes or removes an entry of a registry (bundles by
\* correlation key, synthetic accounts by raw account, the fallback accounts of PID-21,
\* synthetic physician literals by raw literal), and a lookup of a key that has an
\* entry returns that entry instead of generating.
C4_RegistriesAppendOnly ==
    [][ /\ KeepsEntries(identity_map, identity_map')
        /\ KeepsEntries(account_to_deid_map, account_to_deid_map')
        /\ KeepsEntries(mother_to_deid_map, mother_to_deid_map')
        /\ KeepsEntries(physician_mapping, physician_mapping')
        /\ LookupsReturnEntries ]_vars

\* The run is over; a correlation key, a raw account and a physician literal were each
\* met a second time after they had been given their entry.
C4_Witness ==
    /\ op = "main" /\ phase = "done"
    /\ \E r1, r2 \in RecordViews :
          /\ r1.i # r2.i
          /\ r1.unique_key = r2.unique_key /\ r1.unique_key # <<>>
          /\ r1.raw.pid_18 # <<>> /\ r1.raw.pid_18 = r2.raw.pid_18
          /\ HasKey(account_to_deid_map, r1.raw.pid_18)
          /\ \E j \in 1..Len(r1.pv1_in) :
                /\ is_physician_field(r1.pv1_in[j])
                /\ r1.pv1_in = r2.pv1_in
                /\ HasKey(physician_mapping, r1.pv1_in[j])

----------------------------------------------------------------------------
(* C6                                                                      *)

\* C6 as stated: a record with no facility or no primary identifier has no
\* correlation key and is given a bundle created for it, never the bundle of another
\* record: the step that processes it finds no bundle registered for it to reuse.
C6_AsClaimed ==
    [][ \A d \in Appended :
           ~HasCorrelationKey(d.facility, d.pid_3)
               => /\ d.unique_key = <<>>
                  /\ ~HasKey(identity_map, d.unique_key) ]_vars

----------------------------------------------------------------------------
(* C7                                                                      *)

\* The identity attributes of a record as extract_patient_data reads them from a
\* message text, the sub-fields of the address included.
AttributeNames ==
    {"pid_3", "pid_3_account", "pid_4", "pid_5", "pid_6", "pid_7", "pid_9", "city",
     "zipcode", "pid_13", "pid_14", "pid_18", "pid_19", "pid_21"}

Attribute(data, name) ==
    CASE name = "city" -> data.pid_11.city
      [] name = "zipcode" -> data.pid_11.zipcode
      [] OTHER -> data[name]

\* C7 as stated: an attribute that is absent or empty in a record's input is absent
\* or empty in that record's output.
C7_AsClaimed ==
    \A views \in {RecordViews} : \A r \in views : \A name \in AttributeNames :
        Attribute(r.raw, name) = <<>> => Attribute(r.written, name) = <<>>

----------------------------------------------------------------------------
(* C8                                                                      *)

\* full.py:186-214: the PID fields deidentify_hl7_message rewrites.
RewrittenPIDFieldNumbers == {3, 4, 5, 6, 7, 8, 9, 11, 13, 14, 18, 19, 21}

\* C8 as stated: every rewritten PID field, and every PV1 field replaced as a
\* physician literal, has at least as many ^-separated components in the output as
\* in the input.
C8_AsClaimed ==
    \A views \in {RecordViews} : \A r \in views :
        /\ \A k \in RewrittenPIDFieldNumbers :
              Components(PIDField(r.pid_out, k)) >= Components(PIDField(r.pid_in, k))
        /\ \A j \in 1..Len(r.pv1_in) :
              is_physician_field(r.pv1_in[j])
                  => Components(r.pv1_out[j]) >= Components(r.pv1_in[j])

----------------------------------------------------------------------------
(* C11: generate_unique_key on the pairs of two records.                    *)

\* Two records that both have a facility and a primary identifier (full.py:358
\* generates a key for no other record), under one secret configuration.
KeyPairInputs ==
    [facility_a : TextsUpTo(KeyChars, MaxKeyFieldLen) \ {<<>>},
     pid_3_a : TextsUpTo(KeyChars, MaxKeyFieldLen) \ {<<>>},
     facility_b : TextsUpTo(KeyChars, MaxKeyFieldLen) \ {<<>>},
     pid_3_b : TextsUpTo(KeyChars, MaxKeyFieldLen) \ {<<>>},
     setting : SecretSettings]

InitKeyPair ==
    /\ MainIdle
    /\ op = "generate_unique_key_pair"
    /\ args \in KeyPairInputs
    /\ ret = NotCalled

\* full.py:358 for each of the two records.
CallGenerateUniqueKeyPair ==
    /\ op = "generate_unique_key_pair"
    /\ ~ret.done
    /\ ret' = Returned(
          <<generate_unique_key(args.facility_a, args.pid_3_a, args.setting[1], args.setting[2]),
            generate_unique_key(args.facility_b, args.pid_3_b, args.setting[1], args.setting[2])>>)
    /\ UNCHANGED <<op, args>>
    /\ UNCHANGED mainVars

NextKeyPair == CallGenerateUniqueKeyPair

SpecKeyPair == InitKeyPair /\ [][NextKeyPair]_vars

\* C11 as stated: with an injective hash, two records get the same correlation key
\* if and only if their (facility, primary identifier) pairs are identical.
C11_AsClaimed ==
    (op = "generate_unique_key_pair" /\ ret.done) =>
        (ret.value[1] = ret.value[2]
            <=> (args.facility_a = args.facility_b /\ args.pid_3_a = args.pid_3_b))

----------------------------------------------------------------------------
(* C12                                                                     *)

\* The secondary identifiers of a message: PID-18, the AN-tagged account of PID-3
\* and the linked-account reference of PID-21, those that are present.
SecondaryIdentifiers(msg) ==
    UNION { {data.pid_18, data.pid_3_account, data.pid_21} \ {<<>>}
            : data \in {extract_patient_data(msg)} }

\* C12 as stated: when the rewrite pass runs, every secondary identifier of every
\* record of the batch has its entry in the account registry, and no step of the
\* rewrite pass adds an entry to a secondary-identifier table.
C12_AsClaimed ==
    [][ (op = "main" /\ phase = "pass2") =>
            /\ \A i \in 1..Len(messages) :
                  \A id \in SecondaryIdentifiers(messages[i]) :
                     HasKey(account_to_deid_map, id)
            /\ account_to_deid_map' = account_to_deid_map
            /\ mother_to_deid_map' = mother_to_deid_map ]_vars

----------------------------------------------------------------------------
(* C13                                                                     *)

\* The permutations of 1..n.
IndexPermutations(n) ==
    {p \in [1..n -> 1..n] : \A i, j \in 1..n : i # j => p[i] # p[j]}

\* `after` holds the elements of `before`, each once, in ascending order of dt, and
\* elements of equal dt in the order they have in `before`.
StableSortOf(before, after) ==
    /\ Len(after) = Len(before)
    /\ \E p \in IndexPermutations(Len(before)) :
          /\ \A k \in 1..Len(after) : after[k] = before[p[k]]
          /\ \A k \in 1..(Len(after) - 1) : LexLeq(after[k].dt, after[k + 1].dt)
          /\ \A k, l \in 1..Len(after) :
                (k < l /\ after[k].dt = after[l].dt) => p[k] < p[l]

\* The chronological key of a message: the date parsed from its header line.
ChronologicalKey(msg) ==
    Only({ IF Len(lines) > 0 THEN parse_hl7_date(lines[1]) ELSE DateTimeMin
           : lines \in {SplitLines(msg)} })

\* C13: the rewrite pass resolves the records in input order, one entry per input
\* record, each with the key derived from its header timestamp; the sort runs once,
\* when every record has been rewritten, and leaves a permutation of the entries in
\* ascending key order with equal keys in their original order; the output is the
\* rewritten records in that order.
C13_SortedStablePermutation ==
    [][ /\ (op = "main" /\ phase = "pass2") =>
              /\ Len(messages_with_details) = idx - 1
              /\ \/ messages_with_details' = messages_with_details
                 \/ /\ Len(messages_with_details') = idx
                    /\ SubSeq(messages_with_details', 1, idx - 1) = messages_with_details
                    /\ messages_with_details'[idx].orig_msg = messages[idx]
                    /\ messages_with_details'[idx].dt = ChronologicalKey(messages[idx])
        /\ (op = "main" /\ phase = "sort") =>
              /\ Len(messages_with_details) = Len(messages)
              /\ phase' = "done"
              /\ StableSortOf(messages_with_details, messages_with_details')
              /\ ret'.done
              /\ ret'.value = OutputText(messages_with_details')
        /\ (op = "main" /\ phase = "done") =>
              messages_with_details' = messages_with_details ]_vars

\* A run is over in which the sort moved a record forward and two different records
\* with the same key kept their input order.
C13_Witness ==
    /\ op = "main" /\ phase = "done"
    /\ Len(messages_with_details) = 3
    /\ messages_with_details[1].orig_msg = messages[3]
    /\ messages_with_details[2].dt = messages_with_details[3].dt
    /\ messages_with_details[2].orig_msg = messages[1]
    /\ messages_with_details[3].orig_msg = messages[2]
    /\ messages[1] # messages[2]

----------------------------------------------------------------------------
(* C14                                                                     *)

\* C14 as stated: whatever the fields of the records hold, the run does not abort,
\* and when it is over the output holds one record for each input record.
C14_AsClaimed ==
    op = "main" =>
        /\ phase # "crashed"
        /\ phase = "done" => Len(messages_with_details) = Len(messages)

----------------------------------------------------------------------------
(* full.py:178-221 deidentify_hl7_message applied to one message.           *)

\* The line terminators of a text, in order: \n, \r\n or \r.
RECURSIVE TerminatorsFrom(_, _)
TerminatorsFrom(t, from) ==
    IF from > Len(t) THEN <<>>
    ELSE Only({ IF e = 0 THEN <<>>
                ELSE IF t[e] = "\r" /\ e < Len(t) /\ t[e + 1] = "\n"
                     THEN <<<<"\r", "\n">>>> \o TerminatorsFrom(t, e + 2)
                     ELSE <<<<t[e]>>>> \o TerminatorsFrom(t, e + 1)
                : e \in {FirstOf(t, {"\n", "\r"}, from)} })

Terminators(s) == Only({TerminatorsFrom(t, 1) : t \in {s}})

\* The lines of the messages: a header, a PID line of 24 fields with every field
\* filled, a PID line of two fields, a PV1 line with a physician literal and a
\* three-component value that is none, and a line of another segment.
DeidHeaderLine == <<"M", "S", "H", "|", "^", "~", "\\", "&", "|", "A", "|", "F">>

DeidFullPIDLine ==
    Join(<<<<"P", "I", "D">>, <<"1">>, <<"x">>, <<"1">>, <<"4">>, <<"D", "o", "e", "^", "A", "l">>, <<"M", "a">>, <<"1", "9", "8", "0", "0", "3", "1", "5">>, <<"M">>, <<"A", "l">>, <<"t">>, <<"s", "^", "^", "c", "^", "S", "^", "Z">>, <<"u">>, <<"1", "3">>, <<"1", "4">>, <<"v">>, <<"w">>, <<"y">>, <<"a">>, <<"1", "9">>, <<"z">>, <<"b">>, <<"e">>, <<"f">>>>, "|")

DeidShortPIDLine == <<"P", "I", "D", "|", "1">>

DeidPV1Line == <<"P", "V", "1", "|", "1", "|", "a", "^", "b", "^", "c", "^", "M", "D", "|", "a", "^", "b", "^", "M", "D", "|", "w">>

DeidOtherLine == <<"O", "B", "X", "|", "1", "|", "D", "o", "e", " ", "A", "l">>

DeidLines == {DeidHeaderLine, DeidFullPIDLine, DeidShortPIDLine, DeidPV1Line, DeidOtherLine}

\* Bound on the number of lines of a message drawn freely from DeidLines.
MaxDeidLines == 2

\* A message with a line of every kind.
DeidFullMessageLines == <<DeidHeaderLine, DeidFullPIDLine, DeidPV1Line, DeidOtherLine>>

LineTerminators == {<<"\n">>, <<"\r", "\n">>, <<"\r">>}

\* The text of lines separated by a terminator, with or without a final terminator.
RECURSIVE TextOfLinesFrom(_, _, _, _)
TextOfLinesFrom(lines, terminator, final, i) ==
    IF i > Len(lines) THEN <<>>
    ELSE lines[i] \o (IF i < Len(lines) \/ final THEN terminator ELSE <<>>)
             \o TextOfLinesFrom(lines, terminator, final, i + 1)

TextOfLines(lines, terminator, final) == TextOfLinesFrom(lines, terminator, final, 1)

\* A bundle with every attribute, and the bundle of a record that carries none.
FullBundle ==
    [unique_id |-> <<"u">>, new_pid_3 |-> <<"9">>, new_pid_4 |-> <<"A", "1">>,
     new_pid_5 |-> <<"L", "i", "^", "A", "l">>, new_pid_6 |-> <<"L", "i">>,
     new_pid_7 |-> <<"1", "9", "8", "0", "0", "1", "0", "1">>, new_pid_8 |-> <<"M">>,
     new_pid_9 |-> <<"L", "i", "^", "A", "l">>,
     new_pid_11 |-> [keys |-> {"state", "city", "zipcode"}, city |-> <<"C">>,
                     state |-> <<"S">>, zipcode |-> <<"7">>],
     new_pid_13 |-> <<"5">>, new_pid_14 |-> <<"6">>, new_pid_18 |-> <<"H", "0">>,
     new_pid_19 |-> <<"8">>, new_pid_21 |-> <<"H", "1">>, new_pid_3_account |-> <<"H", "2">>,
     sensitive_info |-> <<>>, deid_physicians |-> <<>>]

BlankBundle ==
    [unique_id |-> <<>>, new_pid_3 |-> <<>>, new_pid_4 |-> <<>>, new_pid_5 |-> <<>>,
     new_pid_6 |-> <<>>, new_pid_7 |-> <<>>, new_pid_8 |-> <<>>, new_pid_9 |-> <<>>,
     new_pid_11 |-> EmptyLoc, new_pid_13 |-> <<>>, new_pid_14 |-> <<>>,
     new_pid_18 |-> <<>>, new_pid_19 |-> <<>>, new_pid_21 |-> <<>>,
     new_pid_3_account |-> <<>>, sensitive_info |-> <<>>, deid_physicians |-> <<>>]

DeidInputs ==
    [lines : Batches(DeidLines, MaxDeidLines) \cup {DeidFullMessageLines},
     terminator : LineTerminators, final : BOOLEAN, deid_dict : {FullBundle, BlankBundle}]

InitDeid ==
    /\ MainIdle
    /\ op = "deidentify_hl7_message"
    /\ args \in DeidInputs
    /\ ret = NotCalled

\* deidentify_hl7_message(msg, deid_dict, physician_mapping) with an empty mapping.
CallDeidentify ==
    /\ op = "deidentify_hl7_message"
    /\ ~ret.done
    /\ \E msg \in {TextOfLines(args.lines, args.terminator, args.final)} :
       \E draws \in [NewPhysicianLiterals(msg, EmptyDict) -> PhysicianDraws] :
          ret' = Returned(deidentify_hl7_message(msg, args.deid_dict, EmptyDict, draws))
    /\ UNCHANGED <<op, args>>
    /\ UNCHANGED mainVars

NextDeid == CallDeidentify

SpecDeid == InitDeid /\ [][NextDeid]_vars

DeidReturned == op = "deidentify_hl7_message" /\ ret.done

\* The segment tag of a line: its first three characters.
SegmentTag(line) == Prefix(line, 3)

----------------------------------------------------------------------------
(* C15                                                                     *)

\* C15 as stated: the rewritten record has one line for each line of the input, in
\* the same order (the same segment tags), and between two consecutive lines the
\* terminator of the input.
C15_AsClaimed ==
    DeidReturned =>
        \A msg \in {TextOfLines(args.lines, args.terminator, args.final)} :
        \A lines_in \in {SplitLines(msg)}, lines_out \in {SplitLines(ret.value.message)} :
           /\ Len(lines_out) = Len(lines_in)
           /\ \A i \in 1..Len(lines_in) : SegmentTag(lines_out[i]) = SegmentTag(lines_in[i])
           /\ \A i \in 1..(Len(lines_in) - 1) :
                 /\ i <= Len(Terminators(ret.value.message))
                 /\ Terminators(ret.value.message)[i] = Terminators(msg)[i]

----------------------------------------------------------------------------
(* C16                                                                     *)

\* The positions of a PID line that the rewrite is to leave alone (Python's
\* pid_fields[k]): 1, 2, 10, 12, 15, 16, 17, 20 and every position above 21.
IsNonDesignated(k) == k \in {1, 2, 10, 12, 15, 16, 17, 20} \/ k > 21

PIDLineUntouched(line_in, line_out) ==
    \A fin \in {Split(line_in, "|")}, fout \in {Split(line_out, "|")} :
       \A k \in 1..(Len(fin) - 1) :
          IsNonDesignated(k) => (Len(fout) >= k + 1 /\ fout[k + 1] = fin[k + 1])

PV1LineUntouched(line_in, line_out) ==
    \A fin \in {Split(line_in, "|")}, fout \in {Split(line_out, "|")} :
       /\ Len(fout) = Len(fin)
       /\ \A j \in 1..Len(fin) : ~is_physician_field(fin[j]) => fout[j] = fin[j]

\* C16: in the rewritten record every line that is neither a PID nor a PV1 segment is
\* the input line, every PV1 field that is no physician field is the input field, and
\* every field of a PID line at a non-designated position is the input field at the
\* same position.
C16_FrameUnchanged ==
    DeidReturned =>
        \A lines_in \in {args.lines}, lines_out \in {SplitLines(ret.value.message)} :
           /\ Len(lines_out) = Len(lines_in)
           /\ \A i \in 1..Len(lines_in) :
                 IF StartsWith(lines_in[i], PIDTag)
                 THEN PIDLineUntouched(lines_in[i], lines_out[i])
                 ELSE IF StartsWith(lines_in[i], PV1Tag)
                 THEN PV1LineUntouched(lines_in[i], lines_out[i])
                 ELSE lines_out[i] = lines_in[i]

\* A record with a header, a PID line of 24 filled fields, a PV1 line and another
\* segment has been rewritten with a full bundle: designated PID fields and the
\* physician literal were replaced.
C16_Witness ==
    /\ DeidReturned
    /\ args.lines = DeidFullMessageLines
    /\ args.deid_dict = FullBundle
    /\ \A lines_out \in {SplitLines(ret.value.message)} :
          /\ lines_out[2] # args.lines[2]
          /\ Len(Split(lines_out[2], "|")) = 24
          /\ lines_out[3] # args.lines[3]

----------------------------------------------------------------------------
(* full.py:328-329 the split of the file's text into messages.              *)

HeaderTag == <<"M", "S", "H", "|">>

\* The positions where re.split(r"(?=^MSH\|)", content, flags=re.MULTILINE) splits:
\* the start of the text or the position after a \n, followed by MSH|.
HeaderPositions(t) ==
    {p \in 1..Len(t) :
        /\ p = 1 \/ t[p - 1] = "\n"
        /\ p + Len(HeaderTag) - 1 <= Len(t)
        /\ SubSeq(t, p, p + Len(HeaderTag) - 1) = HeaderTag}

\* The chunks of re.split: the text before the first split position (the empty text
\* when the text starts with MSH|), then one chunk from each split position to the
\* next.
SplitChunks(t) ==
    Only({ [k \in 1..(Cardinality(P) + 1) |->
               SubSeq(t, IF k = 1 THEN 1 ELSE Nth(P, k - 1),
                         IF k = Cardinality(P) + 1 THEN Len(t) ELSE Nth(P, k) - 1)] \o <<>>
           : P \in {HeaderPositions(t)} })

\* full.py:328-329: the chunks that are not empty after strip().
SplitMessages(content) ==
    Only({ SelectSeq(SplitChunks(t), LAMBDA chunk : Strip(chunk) # <<>>) : t \in {content} })

\* The lines of the files: two headers, a line that holds the header tag after its
\* segment tag, a line of blanks, an empty line, and a line of other text.
SplitLinePool ==
    {<<"M", "S", "H", "|", "a">>, <<"M", "S", "H", "|", "b">>, <<"P", "I", "D", "|", "M", "S", "H", "|", "x">>, <<" ", " ">>, <<>>, <<"x", "y", "z">>}

\* Bound on the number of lines of a file.
MaxFileLines == 3

\* The text of a file as read in text mode: every line ends in \n.
FileTexts == {TextOfLines(lines, <<"\n">>, TRUE) : lines \in Batches(SplitLinePool, MaxFileLines)}

InitSplit ==
    /\ MainIdle
    /\ op = "split_messages"
    /\ args \in [content : FileTexts]
    /\ ret = NotCalled

CallSplitMessages ==
    /\ op = "split_messages"
    /\ ~ret.done
    /\ ret' = Returned(SplitMessages(args.content))
    /\ UNCHANGED <<op, args>>
    /\ UNCHANGED mainVars

NextSplit == CallSplitMessages

SpecSplit == InitSplit /\ [][NextSplit]_vars

RECURSIVE Concatenation(_, _)
Concatenation(texts, i) ==
    IF i > Len(texts) THEN <<>> ELSE texts[i] \o Concatenation(texts, i + 1)

----------------------------------------------------------------------------
(* C17                                                                     *)

\* C17 as stated: when the file holds at least one line that starts with MSH|, the
\* split gives one record for each such line; every record starts with a header line
\* and holds no other, and the records together are the text from the first header
\* line on (a header tag inside a line starts no record; chunks of blanks are no
\* records).
C17_AsClaimed ==
    (op = "split_messages" /\ ret.done) =>
        \A P \in {HeaderPositions(args.content)} :
           P # {} =>
              /\ Len(ret.value) = Cardinality(P)
              /\ \A k \in 1..Len(ret.value) : HeaderPositions(ret.value[k]) = {1}
              /\ Concatenation(ret.value, 1)
                    = SubSeq(args.content, Nth(P, 1), Len(args.content))

----------------------------------------------------------------------------
(* C18                                                                     *)

\* The raw accounts pass 1 registers for a set of messages: PID-18 and the AN-tagged
\* account of PID-3, where present.
RegisteredAccounts(message_set) ==
    UNION { UNION { {data.pid_18, data.pid_3_account} \ {<<>>}
                    : data \in {extract_patient_data(msg)} }
            : msg \in message_set }

\* C18: after pass 1 the account registry is determined by the set of the batch's
\* records and the secret configuration, whatever the order of the records: its keys
\* are the raw accounts of the records and each value is the function
\* generate_fake_account_number of its key and the secret configuration alone.  While
\* pass 1 runs, the same holds for the records met so far.
C18_AccountMapOrderIndependent ==
    op = "main" =>
        \A met \in {IF phase = "pass1" THEN SeqRange(SubSeq(messages, 1, idx - 1))
                    ELSE SeqRange(messages)} :
           /\ DOMAIN account_to_deid_map = RegisteredAccounts(met)
           /\ \A k \in DOMAIN account_to_deid_map :
                 account_to_deid_map[k] = generate_fake_account_number(k, secret, use_hmac)

\* Pass 1 is over for a batch that meets account b before account a, both registered
\* with different surrogates (another batch of the model holds the same records in
\* the opposite order).
C18_Witness ==
    /\ op = "main" /\ phase = "pass2"
    /\ messages = <<Patient1Visit2, Patient2Visit, Patient1Visit1>>
    /\ DOMAIN account_to_deid_map = {<<"a">>, <<"b">>}
    /\ account_to_deid_map[<<"a">>] # account_to_deid_map[<<"b">>]

----------------------------------------------------------------------------
(* full.py:162-171 generate_fake_account_number applied to one raw account. *)

\* Bound on the length of the raw account.
MaxAccountLen == 6

AccountChars == {"a", "b"}

AccountInputs ==
    [original_account : TextsUpTo(AccountChars, MaxAccountLen), setting : SecretSettings]

InitAccount ==
    /\ MainIdle
    /\ op = "generate_fake_account_number"
    /\ args \in AccountInputs
    /\ ret = NotCalled

CallGenerateFakeAccountNumber ==
    /\ op = "generate_fake_account_number"
    /\ ~ret.done
    /\ ret' = Returned(generate_fake_account_number(args.original_account,
                                                    args.setting[1], args.setting[2]))
    /\ UNCHANGED <<op, args>>
    /\ UNCHANGED mainVars

NextAccount == CallGenerateFakeAccountNumber

SpecAccount == InitAccount /\ [][NextAccount]_vars

\* The decimal digits of the digest the call computes.
AccountDigest ==
    IF args.setting[2] /\ args.setting[1] # <<>>
    THEN HmacSha256(args.setting[1], args.original_account)
    ELSE Sha256(args.original_account)

----------------------------------------------------------------------------
(* C19                                                                     *)

\* C19: the result has exactly 12 characters, H followed by 11 decimal digits, and the
\* digits are the digest's value modulo 10^11: the last 11 digits of its decimal
\* expansion, extended with zeros on the left where it is shorter.
C19_AccountNumberFormat ==
    (op = "generate_fake_account_number" /\ ret.done) =>
        \A digest \in {AccountDigest} :
        \A extended \in {[i \in 1..11 |-> "0"] \o digest} :
           /\ Len(ret.value) = 12
           /\ ret.value[1] = "H"
           /\ \A i \in 2..12 : ret.value[i] \in SeqRange(DigitChars)
           /\ SubSeq(ret.value, 2, 12) = SubSeq(extended, Len(extended) - 10, Len(extended))

\* An account has been generated from a digest of more than 11 digits whose value
\* modulo 10^11 has fewer than 11 digits, so that the result was both reduced and
\* padded.
C19_Witness ==
    /\ op = "generate_fake_account_number" /\ ret.done
    /\ Len(AccountDigest) > 11
    /\ ret.value[2] = "0"
    /\ Len(ret.value) = 12

----------------------------------------------------------------------------
(* full.py:144-154 generate_fake_dob applied to one date of birth.          *)

\* The first four characters of the dates of birth: years on both sides of the age
\* limit, leap years, the ends of the range, a text that is no number and a short
\* one.
DobYearTexts ==
    {<<"1", "9", "3", "5">>,
     <<"1", "9", "3", "6">>,
     <<"1", "9", "3", "7">>,
     <<"1", "9", "3", "2">>,
     <<"1", "9", "0", "0">>,
     <<"1", "9", "8", "0">>,
     <<"2", "0", "0", "0">>,
     <<"2", "0", "2", "5">>,
     <<"2", "0", "2", "6">>,
     <<"2", "0", "3", "0">>,
     <<"0", "0", "0", "0">>,
     <<"9", "9", "9", "9">>,
     <<"a", "b", "c", "d">>,
     <<"1", "9">>}

\* What follows the year.
DobTails == {<<"0", "3", "1", "5">>, <<>>, <<"1", "3", "0", "1">>}

\* datetime.today().year: the year of the run and the year before.
DobTodayYears == {CurrentYear - 1, CurrentYear}

\* The (month, day) pairs random.randint can return for a date of birth.
DobMonthDays(original_dob_str) ==
    UNION { {md \in SeqRange(MonthDayPool) : md[2] <= DaysInMonth(year, md[1])}
            : year \in {DobYear(original_dob_str)} }

DobInputs ==
    UNION { [original_dob_str : {y \o t}, today_year : DobTodayYears,
             md : DobMonthDays(y \o t)]
            : y \in DobYearTexts, t \in DobTails }

InitDob ==
    /\ MainIdle
    /\ op = "generate_fake_dob"
    /\ args \in DobInputs
    /\ ret = NotCalled

\* The call returns the date or raises.
CallGenerateFakeDob ==
    /\ op = "generate_fake_dob"
    /\ ~ret.done
    /\ ret' = Returned(generate_fake_dob(args.original_dob_str, args.today_year, args.md))
    /\ UNCHANGED <<op, args>>
    /\ UNCHANGED mainVars

NextDob == CallGenerateFakeDob

SpecDob == InitDob /\ [][NextDob]_vars

\* The call has returned a date.
DobReturned == op = "generate_fake_dob" /\ ret.done /\ ~ret.value.raises

----------------------------------------------------------------------------
(* C20                                                                     *)

----------------------------------------------------------------------------
(* C21                                                                     *)

\* C21 as stated: for every birth year, current year and draw of month and day, the
\* call returns a date, and the day of the date exists in its month of its year.
C21_AsClaimed ==
    (op = "generate_fake_dob" /\ ret.done) =>
        /\ ~ret.value.raises
        /\ \A v \in {ret.value.value} :
              /\ Len(v) = 8
              /\ ValidDateTime(DigitsValue(SubSeq(v, 1, 4)), DigitsValue(SubSeq(v, 5, 6)),
                               DigitsValue(SubSeq(v, 7, 8)), 0, 0)

----------------------------------------------------------------------------
(* C22                                                                     *)

\* The last ^-component of a field.
LastComponent(f) == Only({parts[Len(parts)] : parts \in {Split(f, "^")}})

\* C22 as stated: the literal written for a PV1 field recognised as a physician field
\* ends with the role code of the original and has as many ^-components as the
\* original.
C22_AsClaimed ==
    op = "physician_main" =>
        \A p \in PhysPairs :
            is_physician_field(p[1]) =>
                /\ LastComponent(p[2]) = LastComponent(p[1])
                /\ Components(p[2]) = Components(p[1])

----------------------------------------------------------------------------
(* C23                                                                     *)

\* C23 as stated: for a record whose PID-3 holds an AN-tagged account repetition, the
\* first repetition of the output PID-3 starts with the bundle's synthetic primary
\* identifier, and the output PID-3 ends, after a ~, with a repetition whose first
\* component is the registry's synthetic value of that raw account.
C23_AsClaimed ==
    \A views \in {RecordViews} : \A r \in views :
        r.raw.pid_3_account # <<>> =>
            \A reps \in {Split(PIDField(r.pid_out, 3), "~")} :
               /\ Split(reps[1], "^")[1] = r.deid_dict.new_pid_3
               /\ Len(reps) >= 2
               /\ HasKey(account_to_deid_map, r.raw.pid_3_account)
               /\ Split(reps[Len(reps)], "^")[1] = account_to_deid_map[r.raw.pid_3_account]

----------------------------------------------------------------------------
(* C24                                                                     *)

\* C24 as stated: for a record whose PID-11 carries a state code, the 4th component of
\* the rewritten PID-11 is that state code, and the 3rd and the 5th component are the
\* bundle's synthetic city and zip code.
C24_AsClaimed ==
    \A views \in {RecordViews} : \A r \in views :
        r.raw.pid_11.state # <<>> =>
            \A parts \in {Split(PIDField(r.pid_out, 11), "^")} :
               /\ Len(parts) >= 5
               /\ parts[4] = r.raw.pid_11.state
               /\ parts[3] = r.deid_dict.new_pid_11.city
               /\ parts[5] = r.deid_dict.new_pid_11.zipcode

----------------------------------------------------------------------------
(* redact.py:49-58 redact_text                                             *)

\* The characters \w matches among those of the model's texts.
WordChars ==
    SeqRange(DigitChars) \cup {"a", "A", "d", "D", "n", "N", "m", "M", "o", "O", "_"}

\* Whether \b matches before position p of t (p = Len(t) + 1: at the end): exactly
\* one of the characters on its two sides is a word character.
WordBoundary(t, p) ==
    ((p > 1 /\ t[p - 1] \in WordChars) # (p <= Len(t) /\ t[p] \in WordChars))

\* Whether the token stands at position i of t, in any letter case (re.IGNORECASE).
TokenAt(t, token, i) ==
    /\ i + Len(token) - 1 <= Len(t)
    /\ \A k \in 1..Len(token) : UpperChar(t[i + k - 1]) = UpperChar(token[k])

\* Whether \b token \b matches at position i.
PatternMatchesAt(t, token, i) ==
    /\ TokenAt(t, token, i)
    /\ WordBoundary(t, i)
    /\ WordBoundary(t, i + Len(token))

\* re.sub: the matches are taken from left to right without overlap, each replaced by
\* asterisks of its length.  An empty token changes nothing.
RECURSIVE SubFrom(_, _, _)
SubFrom(t, token, from) ==
    Only({ IF m = {} THEN t
           ELSE Only({ SubFrom([k \in 1..Len(t) |->
                                   IF k >= i /\ k < i + Len(token) THEN "*" ELSE t[k]],
                               token, i + Len(token))
                       : i \in {CHOOSE i \in m : \A j \in m : i <= j} })
           : m \in {{i \in from..Len(t) : PatternMatchesAt(t, token, i)}} })

\* redact.py:56-57 for one token
RedactToken(text, token) == IF token = <<>> THEN text ELSE SubFrom(text, token, 1)

\* redact.py:54-58: the tokens are applied in the order given.
RECURSIVE RedactFrom(_, _, _)
RedactFrom(text, sensitive_tokens, i) ==
    IF i > Len(sensitive_tokens) THEN text
    ELSE Only({ RedactFrom(r, sensitive_tokens, i + 1)
                : r \in {RedactToken(text, sensitive_tokens[i])} })

redact_text(text, sensitive_tokens) == RedactFrom(text, sensitive_tokens, 1)

\* Bound on the length of the free text.
MaxRedactLen == 4

RedactChars == {"a", "A", "d", "(", " "}

\* The sensitive literals: a word, a longer word, a phrase, and a literal that begins
\* with punctuation.
RedactTokens == {<<"a">>, <<"a", "d">>, <<"a", " ", "d">>, <<"(", "a">>}

\* redact.py:87: the token set as a list, longest first; tokens of equal length in
\* any order.
TokenLists ==
    {q \in SeqsOfLen(RedactTokens, 1) \cup SeqsOfLen(RedactTokens, 2) :
        /\ \A i, j \in 1..Len(q) : i # j => q[i] # q[j]
        /\ \A i \in 1..(Len(q) - 1) : Len(q[i]) >= Len(q[i + 1])}

RedactInputs == [text : TextsUpTo(RedactChars, MaxRedactLen), sensitive_tokens : TokenLists]

InitRedact ==
    /\ MainIdle
    /\ op = "redact_text"
    /\ args \in RedactInputs
    /\ ret = NotCalled

CallRedactText ==
    /\ op = "redact_text"
    /\ ~ret.done
    /\ ret' = Returned(redact_text(args.text, args.sensitive_tokens))
    /\ UNCHANGED <<op, args>>
    /\ UNCHANGED mainVars

NextRedact == CallRedactText

SpecRedact == InitRedact /\ [][NextRedact]_vars

\* The token stands at position i of t as a whole token: in any letter case, with a
\* non-word character or an end of the text on either side.
WholeTokenAt(t, token, i) ==
    /\ TokenAt(t, token, i)
    /\ i = 1 \/ t[i - 1] \notin WordChars
    /\ i + Len(token) - 1 = Len(t) \/ t[i + Len(token)] \notin WordChars

\* The result has the length of the text and differs from it only by asterisks.
MaskedInPlace(text, result) ==
    /\ Len(result) = Len(text)
    /\ \A k \in 1..Len(text) : result[k] = text[k] \/ result[k] = "*"

----------------------------------------------------------------------------
(* C25                                                                     *)

\* C25 as stated: after the scan no literal of the token list occurs in the field as
\* a whole token, and the field differs from the input only by masks of the length of
\* what they replace.
C25_AsClaimed ==
    (op = "redact_text" /\ ret.done) =>
        /\ MaskedInPlace(args.text, ret.value)
        /\ \A n \in 1..Len(args.sensitive_tokens) : \A i \in 1..Len(ret.value) :
              ~WholeTokenAt(ret.value, args.sensitive_tokens[n], i)

----------------------------------------------------------------------------
(* C26                                                                     *)

\* The Sensitive Token Set (encrypt.py:222-253): the union of the sensitive_info lists
\* of the bundles of the identity registry.
SensitiveTokenSet ==
    UNION {SeqRange(identity_map[k].sensitive_info) : k \in DOMAIN identity_map}

\* The attributes of a record that the rewrite replaces by a surrogate.
SurrogateAttributes ==
    {"pid_3", "pid_3_account", "pid_4", "pid_5", "pid_6", "pid_7", "pid_9", "pid_13",
     "pid_14", "pid_18", "pid_19", "pid_21"}

\* The real literal values of a record that its written form shows replaced by a
\* surrogate.
ReplacedLiterals(r) ==
    {r.raw[a] : a \in {a \in SurrogateAttributes :
                          /\ r.raw[a] # <<>>
                          /\ r.written[a] # <<>>
                          /\ r.written[a] # r.raw[a]}}

\* C26 as stated: at the end of a batch run the Sensitive Token Set contains every real
\* literal value that was replaced by a surrogate in a record of the batch, raw account
\* numbers and linked-account references included.
C26_AsClaimed ==
    (op = "main" /\ phase = "done") =>
        \A r \in RecordViews :
            HasCorrelationKey(r.facility, r.pid_3) => ReplacedLiterals(r) \subseteq SensitiveTokenSet

----------------------------------------------------------------------------
(* C27                                                                     *)

\* The header timestamp of a message as it stands in the record: field 7 of its first
\* MSH line, <<>> when there is none.
RECURSIVE HeaderTimestampFrom(_, _)
HeaderTimestampFrom(lines, i) ==
    IF i > Len(lines) THEN <<>>
    ELSE IF StartsWith(lines[i], MSHTag)
         THEN Only({ IF Len(fields) > 6 THEN Strip(fields[7]) ELSE <<>>
                     : fields \in {Split(lines[i], "|")} })
    ELSE HeaderTimestampFrom(lines, i + 1)

HeaderTimestamp(msg) == Only({HeaderTimestampFrom(lines, 1) : lines \in {SplitLines(msg)}})

\* A well-formed YYYYMMDDHHMMSS timestamp.
WellFormed14(ts) ==
    /\ Len(ts) = 14
    /\ IsDigits(ts)
    /\ ValidDateTime(DigitsValue(SubSeq(ts, 1, 4)), DigitsValue(SubSeq(ts, 5, 6)),
                     DigitsValue(SubSeq(ts, 7, 8)), DigitsValue(SubSeq(ts, 9, 10)),
                     DigitsValue(SubSeq(ts, 11, 12)))
    /\ DigitsValue(SubSeq(ts, 13, 14)) <= 59

\* Timestamp a is earlier than timestamp b, both of 14 digits.
Earlier14(a, b) ==
    /\ a # b
    /\ LexLeq([k \in 1..14 |-> DigitValue(a[k])], [k \in 1..14 |-> DigitValue(b[k])])

\* C27 as stated: of two records with different well-formed 14-digit header timestamps,
\* the one with the earlier timestamp stands before the other in the output, also when
\* the two differ only in the seconds.
C27_AsClaimed ==
    (op = "main" /\ phase = "done") =>
        \A i, j \in 1..Len(messages_with_details) :
            \A a \in {HeaderTimestamp(messages_with_details[i].orig_msg)} :
            \A b \in {HeaderTimestamp(messages_with_details[j].orig_msg)} :
                (WellFormed14(a) /\ WellFormed14(b) /\ Earlier14(a, b)) => i < j

----------------------------------------------------------------------------
(* C28                                                                     *)

\* The keys that pass 2 looks up directly for a message (full.py:362-365): its
\* non-empty PID-18 value and its AN-tagged PID-3 account.
DirectLookupKeys(msg) ==
    Only({ {data.pid_18, data.pid_3_account} \ {<<>>} : data \in {extract_patient_data(msg)} })

\* C28: once pass 1 is over, the PID-18 value and the AN-tagged PID-3 account of every
\* record of the batch are keys of the account registry, so that neither direct lookup
\* of pass 2 raises for a missing key.
C28_LookupsSucceed ==
    (op = "main" /\ phase \in {"pass2", "sort", "done", "crashed"}) =>
        \A i \in 1..Len(messages) : DirectLookupKeys(messages[i]) \subseteq DOMAIN account_to_deid_map

\* The run is over for a batch with an AN-tagged PID-3 account and a PID-18 account,
\* both looked up in pass 2.
C28_Witness ==
    /\ op = "main" /\ phase = "done"
    /\ messages = <<TaggedAccountMessage, Patient1Visit1>>
    /\ DirectLookupKeys(messages[1]) = {<<"b">>}
    /\ DirectLookupKeys(messages[2]) = {<<"a">>}
    /\ Len(messages_with_details) = 2

----------------------------------------------------------------------------
(* C29                                                                     *)

\* C29 as stated: the identity registry never holds the same synthetic primary
\* identifier for two different correlation keys, and two records with different
\* correlation keys are never written with the same synthetic primary identifier.
C29_AsClaimed ==
    op = "main" =>
        /\ \A k1, k2 \in DOMAIN identity_map :
              (k1 # <<>> /\ k2 # <<>> /\ k1 # k2)
                  => identity_map[k1].new_pid_3 # identity_map[k2].new_pid_3
        /\ \A r1, r2 \in RecordViews :
              (/\ HasCorrelationKey(r1.facility, r1.pid_3)
               /\ HasCorrelationKey(r2.facility, r2.pid_3)
               /\ r1.unique_key # r2.unique_key)
                  => r1.written.pid_3 # r2.written.pid_3

====
